---- MODULE Spec2Model ----
(***************************************************************************)
(* Model of the PCB design rule checker of hwt-core (pcb_drc.rs).          *)
(*                                                                         *)
(* Lengths.  The program computes in f64 millimetres.  The model keeps     *)
(* every input length as an integer number of micrometres and every       *)
(* computed f64 as an exact value (sqrt(root) + lin) / 2 micrometres,      *)
(* written [root |-> a, lin |-> b]: this form is closed under everything   *)
(* the checker computes (halves, differences of inputs, one Euclidean      *)
(* distance minus a half sum) and its comparisons with a threshold are     *)
(* decided exactly on integers.  A Point2D is kept in half micrometres     *)
(* (x2, y2), so that a midpoint is exact.                                  *)
(***************************************************************************)
EXTENDS Integers, Sequences, FiniteSets, TLC

VARIABLES layout, checker, report, prev, browser, calls, ret, run

vars == <<layout, checker, report, prev, browser, calls, ret, run>>

(***************************************************************************)
(* Bounds of the model.                                                    *)
(***************************************************************************)
\* traces + vias + components of a layout
MaxEntities == 3

\* the most calls that change the library browser in one session
MaxCalls == 3

(***************************************************************************)
(* Exact arithmetic for the f64 values of the checker.                     *)
(***************************************************************************)
\* f64::NAN as an input coordinate, outside the range of every finite one
NaN == -1000000

\* f64::NAN as a computed value: the root part is the square root of -1
NaNValue == [root |-> -1, lin |-> 0]

is_nan(v) == v.root < 0

\* an input length of n micrometres
Num(n) == IF n = NaN THEN NaNValue ELSE [root |-> 0, lin |-> 2 * n]

\* a - b on input lengths
Sub(a, b) == IF a = NaN \/ b = NaN THEN NaN ELSE a - b

\* n / 2.0 for an integer number n of micrometres
Half(n) == [root |-> 0, lin |-> n]

\* v < w, for w without a root part:  sqrt(a) + b < c
\* false when either side is NaN
LessThan(v, w) ==
    LET c == w.lin - v.lin
    IN  ~is_nan(v) /\ ~is_nan(w) /\ c > 0 /\ v.root < c * c

\* v > w, for w without a root part:  sqrt(a) + b > c
\* false when either side is NaN
GreaterThan(v, w) ==
    LET c == w.lin - v.lin
    IN  ~is_nan(v) /\ ~is_nan(w) /\ (c < 0 \/ v.root > c * c)

\* v - n/2 for an integer n
MinusHalf(v, n) ==
    IF is_nan(v) THEN NaNValue ELSE [root |-> v.root, lin |-> v.lin - n]

\* f64::min and f64::max: if one argument is NaN the other is returned
Min(a, b) == IF a = NaN THEN b ELSE IF b = NaN THEN a
             ELSE IF a < b THEN a ELSE b
Max(a, b) == IF a = NaN THEN b ELSE IF b = NaN THEN a
             ELSE IF a > b THEN a ELSE b

(***************************************************************************)
(* Geometry helpers of pcb_drc.rs.                                         *)
(***************************************************************************)
Pos(x, y) == [x |-> x, y |-> y]

position_to_point(pos) ==
    [x2 |-> IF pos.x = NaN THEN NaN ELSE 2 * pos.x,
     y2 |-> IF pos.y = NaN THEN NaN ELSE 2 * pos.y]

trace_midpoint(trace) ==
    [x2 |-> IF trace.start.x = NaN \/ trace.end.x = NaN THEN NaN
            ELSE trace.start.x + trace.end.x,
     y2 |-> IF trace.start.y = NaN \/ trace.end.y = NaN THEN NaN
            ELSE trace.start.y + trace.end.y]

position_distance(p1, p2) ==
    IF NaN \in {p1.x, p1.y, p2.x, p2.y} THEN NaNValue
    ELSE [root |-> 4 * ((p2.x - p1.x) * (p2.x - p1.x) + (p2.y - p1.y) * (p2.y - p1.y)),
          lin  |-> 0]

point_distance(p1, p2) ==
    IF NaN \in {p1.x2, p1.y2, p2.x2, p2.y2} THEN NaNValue
    ELSE [root |-> (p2.x2 - p1.x2) * (p2.x2 - p1.x2) + (p2.y2 - p1.y2) * (p2.y2 - p1.y2),
          lin  |-> 0]

\* variant: the edge distance is not clamped at zero
min_trace_distance_unclamped(t1, t2) ==
    <<MinusHalf(point_distance(trace_midpoint(t1), trace_midpoint(t2)),
                t1.width + t2.width)>>

\* variant: only the first trace's width is subtracted
min_trace_distance_firstwidth(t1, t2) ==
    LET edge_distance == MinusHalf(point_distance(trace_midpoint(t1), trace_midpoint(t2)),
                                   2 * t1.width)
    IN  IF GreaterThan(edge_distance, Num(0)) THEN <<edge_distance>> ELSE <<Num(0)>>

\* Some(edge_distance) if positive, else Some(0.0); never None
min_trace_distance(t1, t2) ==
    LET mid1 == trace_midpoint(t1)
        mid2 == trace_midpoint(t2)
        center_distance == point_distance(mid1, mid2)
        edge_distance == MinusHalf(center_distance, t1.width + t2.width)
    IN  IF GreaterThan(edge_distance, Num(0)) THEN <<edge_distance>> ELSE <<Num(0)>>

(***************************************************************************)
(* PcbDesignRules and its three canonical instances (micrometres).         *)
(***************************************************************************)
PcbDesignRulesDefault ==
    [min_track_clearance |-> 200, min_track_to_pad_clearance |-> 200,
     min_track_to_via_clearance |-> 200, min_via_clearance |-> 300,
     min_track_width |-> 150, min_via_diameter |-> 600, min_via_drill |-> 300,
     min_annular_ring |-> 150, min_hole_clearance |-> 500,
     min_edge_clearance |-> 300, min_silk_width |-> 150,
     min_silk_text_height |-> 800, check_silk_over_pads |-> TRUE,
     min_courtyard_clearance |-> 250]

\* variant: the 6 mil track width of the other preset
jlcpcb_6mil ==
    [min_track_clearance |-> 127, min_track_to_pad_clearance |-> 127,
     min_track_to_via_clearance |-> 127, min_via_clearance |-> 254,
     min_track_width |-> 152, min_via_diameter |-> 450, min_via_drill |-> 200,
     min_annular_ring |-> 125, min_hole_clearance |-> 500,
     min_edge_clearance |-> 300, min_silk_width |-> 150,
     min_silk_text_height |-> 1000, check_silk_over_pads |-> TRUE,
     min_courtyard_clearance |-> 250]

jlcpcb ==
    [min_track_clearance |-> 127, min_track_to_pad_clearance |-> 127,
     min_track_to_via_clearance |-> 127, min_via_clearance |-> 254,
     min_track_width |-> 127, min_via_diameter |-> 450, min_via_drill |-> 200,
     min_annular_ring |-> 125, min_hole_clearance |-> 500,
     min_edge_clearance |-> 300, min_silk_width |-> 150,
     min_silk_text_height |-> 1000, check_silk_over_pads |-> TRUE,
     min_courtyard_clearance |-> 250]

\* variant: the OSH Park widths and the edge clearance rounded into the default's
osh_park_within_default ==
    [min_track_clearance |-> 152, min_track_to_pad_clearance |-> 152,
     min_track_to_via_clearance |-> 152, min_via_clearance |-> 254,
     min_track_width |-> 150, min_via_diameter |-> 500, min_via_drill |-> 254,
     min_annular_ring |-> 127, min_hole_clearance |-> 381,
     min_edge_clearance |-> 300, min_silk_width |-> 150,
     min_silk_text_height |-> 800, check_silk_over_pads |-> TRUE,
     min_courtyard_clearance |-> 250]

osh_park ==
    [min_track_clearance |-> 152, min_track_to_pad_clearance |-> 152,
     min_track_to_via_clearance |-> 152, min_via_clearance |-> 254,
     min_track_width |-> 152, min_via_diameter |-> 500, min_via_drill |-> 254,
     min_annular_ring |-> 127, min_hole_clearance |-> 381,
     min_edge_clearance |-> 381, min_silk_width |-> 152,
     min_silk_text_height |-> 800, check_silk_over_pads |-> TRUE,
     min_courtyard_clearance |-> 250]

(***************************************************************************)
(* The violation model as pcb_drc.rs uses it: DrcViolation::new(rule,      *)
(* message, location) with_severity, with_values(measured, limit, unit)    *)
(* and with_fix.  A message is kept as its format string and the names it  *)
(* interpolates; the numbers it prints are the measured and limit values   *)
(* of the same violation.  An absent fix is <<>>.                          *)
(***************************************************************************)
NewReport(name, kind) == [name |-> name, kind |-> kind, violations |-> <<>>]

Push(rep, v) == [rep EXCEPT !.violations = Append(@, v)]

RECURSIVE PushAll(_, _)
PushAll(rep, vs) ==
    IF vs = <<>> THEN rep ELSE PushAll(Push(rep, Head(vs)), Tail(vs))

\* the violations f[1], ..., f[n] of a loop of n iterations, in iteration order
RECURSIVE Loop(_, _)
Loop(f, n) == IF n = 0 THEN <<>> ELSE Loop(f, n - 1) \o f[n]

(***************************************************************************)
(* Pass 1: track widths.                                                   *)
(***************************************************************************)
\* variant: the comparison admits equality
TrackTooNarrow_le(self, trace) ==
    ~LessThan(Num(self.rules.min_track_width), Num(trace.width))

\* variant: the tracks wider than the minimum are reported
TrackTooNarrow_wider(self, trace) ==
    GreaterThan(Num(trace.width), Num(self.rules.min_track_width))

TrackTooNarrow(self, trace) ==
    LessThan(Num(trace.width), Num(self.rules.min_track_width))

WidthTrackViolation(self, trace) ==
    [rule     |-> "width.track",
     message  |-> [text  |-> "Track width {:.3}mm is below minimum {:.3}mm",
                   names |-> <<>>],
     location |-> trace_midpoint(trace),
     severity |-> "Error",
     measured |-> Num(trace.width),
     limit    |-> Num(self.rules.min_track_width),
     unit     |-> "mm",
     fix      |-> <<"Increase track width to at least {:.3}mm">>]

check_track_widths(self, rep) ==
    LET traces == self.layout.traces
    IN  PushAll(rep,
          Loop([i \in 1..Len(traces) |->
                  IF TrackTooNarrow(self, traces[i])
                  THEN <<WidthTrackViolation(self, traces[i])>>
                  ELSE <<>>],
               Len(traces)))

(***************************************************************************)
(* Pass 2: track-to-track clearances.                                      *)
(***************************************************************************)
\* variant: the same-net test is missing
TrackPairSkipped_anynet(t1, t2) == t1.layer # t2.layer

\* variant: the layer test is missing
TrackPairSkipped_anylayer(t1, t2) == t1.net = t2.net

TrackPairSkipped(t1, t2) == t1.layer # t2.layer \/ t1.net = t2.net

TrackClearanceViolation(self, t1, clearance) ==
    [rule     |-> "clearance.track_to_track",
     message  |-> [text  |-> "Track clearance {:.3}mm is below minimum {:.3}mm",
                   names |-> <<>>],
     location |-> trace_midpoint(t1),
     severity |-> "Error",
     measured |-> clearance,
     limit    |-> Num(self.rules.min_track_clearance),
     unit     |-> "mm",
     fix      |-> <<"Increase spacing between tracks">>]

TrackPairViolations(self, t1, t2) ==
    IF TrackPairSkipped(t1, t2) THEN <<>>
    ELSE LET d == min_trace_distance(t1, t2)
         IN  IF d # <<>> /\ LessThan(d[1], Num(self.rules.min_track_clearance))
             THEN <<TrackClearanceViolation(self, t1, d[1])>>
             ELSE <<>>

check_track_clearances(self, rep) ==
    LET traces == self.layout.traces
        n == Len(traces)
    IN  PushAll(rep,
          Loop([i \in 1..n |->
                  Loop([j \in 1..n |->
                          IF j > i THEN TrackPairViolations(self, traces[i], traces[j])
                          ELSE <<>>], n)], n))

(***************************************************************************)
(* Pass 3: via rules (diameter, drill, annular ring; then via-to-via).     *)
(***************************************************************************)
ViaDiameterTooSmall(self, via) ==
    LessThan(Num(via.pad), Num(self.rules.min_via_diameter))

\* variant: the drill is tested only when the diameter passed (else if)
ViaDrillTooSmall_elseif(self, via) ==
    /\ ~LessThan(Num(via.pad), Num(self.rules.min_via_diameter))
    /\ LessThan(Num(via.drill), Num(self.rules.min_via_drill))

ViaDrillTooSmall(self, via) ==
    LessThan(Num(via.drill), Num(self.rules.min_via_drill))

\* variant: the difference of the diameters is not halved
annular_ring_diameters(via) == Num(via.pad - via.drill)

annular_ring(via) == Half(via.pad - via.drill)

\* variant: a ring equal to the minimum is too small
AnnularRingTooSmall_le(self, via) ==
    ~GreaterThan(annular_ring(via), Num(self.rules.min_annular_ring))

AnnularRingTooSmall(self, via) ==
    LessThan(annular_ring(via), Num(self.rules.min_annular_ring))

ViaSizeViolation(rule, text, via, measured, limit, fix) ==
    [rule     |-> rule,
     message  |-> [text |-> text, names |-> <<>>],
     location |-> position_to_point(via.position),
     severity |-> "Error",
     measured |-> measured,
     limit    |-> Num(limit),
     unit     |-> "mm",
     fix      |-> fix]

ViaViolations(self, via) ==
    (IF ViaDiameterTooSmall(self, via)
     THEN <<ViaSizeViolation("size.via_diameter",
                             "Via diameter {:.3}mm is below minimum {:.3}mm",
                             via, Num(via.pad), self.rules.min_via_diameter, <<>>)>>
     ELSE <<>>)
    \o
    (IF ViaDrillTooSmall(self, via)
     THEN <<ViaSizeViolation("size.via_drill",
                             "Via drill {:.3}mm is below minimum {:.3}mm",
                             via, Num(via.drill), self.rules.min_via_drill, <<>>)>>
     ELSE <<>>)
    \o
    (IF AnnularRingTooSmall(self, via)
     THEN <<ViaSizeViolation("size.annular_ring",
                             "Annular ring {:.3}mm is below minimum {:.3}mm",
                             via, annular_ring(via), self.rules.min_annular_ring,
                             <<"Increase via diameter or decrease drill size">>)>>
     ELSE <<>>)

\* variant: the average of the two pad radii is subtracted
via_edge_distance_radii(v1, v2) ==
    MinusHalf(position_distance(v1.position, v2.position),
              (v1.pad + v2.pad) \div 2)

via_edge_distance(v1, v2) ==
    MinusHalf(position_distance(v1.position, v2.position), v1.pad + v2.pad)

ViaPairSkipped(v1, v2) == v1.net = v2.net

ViaPairViolations(self, v1, v2) ==
    IF ViaPairSkipped(v1, v2) THEN <<>>
    ELSE LET edge_distance == via_edge_distance(v1, v2)
         IN  IF LessThan(edge_distance, Num(self.rules.min_via_clearance))
             THEN <<ViaSizeViolation("clearance.via_to_via",
                                     "Via clearance {:.3}mm is below minimum {:.3}mm",
                                     v1, edge_distance, self.rules.min_via_clearance,
                                     <<>>)>>
             ELSE <<>>

check_via_rules(self, rep) ==
    LET vias == self.layout.vias
        n == Len(vias)
    IN  PushAll(
          PushAll(rep, Loop([i \in 1..n |-> ViaViolations(self, vias[i])], n)),
          Loop([i \in 1..n |->
                  Loop([j \in 1..n |->
                          IF j > i THEN ViaPairViolations(self, vias[i], vias[j])
                          ELSE <<>>], n)], n))

(***************************************************************************)
(* Pass 4: copper-to-edge clearances.  An outline is <<>> (None) or        *)
(* <<o>> with o.width and o.height each <<>> or <<n>>.                     *)
(***************************************************************************)
\* variant: an edge violation is a warning
EdgeViolation_warning(self, trace, clearance) ==
    [rule     |-> "clearance.edge",
     message  |-> [text  |-> "Track too close to board edge ({:.3}mm < {:.3}mm)",
                   names |-> <<>>],
     location |-> trace_midpoint(trace),
     severity |-> "Warning",
     measured |-> clearance,
     limit    |-> Num(self.rules.min_edge_clearance),
     unit     |-> "mm",
     fix      |-> <<>>]

EdgeViolation(self, trace, clearance) ==
    [rule     |-> "clearance.edge",
     message  |-> [text  |-> "Track too close to board edge ({:.3}mm < {:.3}mm)",
                   names |-> <<>>],
     location |-> trace_midpoint(trace),
     severity |-> "Error",
     measured |-> clearance,
     limit    |-> Num(self.rules.min_edge_clearance),
     unit     |-> "mm",
     fix      |-> <<>>]

EdgeTooClose(self, clearance) ==
    LessThan(clearance, Num(self.rules.min_edge_clearance))

left_clearance(trace) ==
    MinusHalf(Num(Min(trace.start.x, trace.end.x)), trace.width)

\* variant: the right edge is measured from the trace's leftmost end
right_clearance_min(trace, width) ==
    MinusHalf(Num(Sub(width, Min(trace.start.x, trace.end.x))), trace.width)

right_clearance(trace, width) ==
    MinusHalf(Num(Sub(width, Max(trace.start.x, trace.end.x))), trace.width)

bottom_clearance(trace) ==
    MinusHalf(Num(Min(trace.start.y, trace.end.y)), trace.width)

top_clearance(trace, height) ==
    MinusHalf(Num(Sub(height, Max(trace.start.y, trace.end.y))), trace.width)

EdgeViolations(self, trace, width, height) ==
    LET one(c) == IF EdgeTooClose(self, c) THEN <<EdgeViolation(self, trace, c)>>
                  ELSE <<>>
    IN  one(left_clearance(trace)) \o one(right_clearance(trace, width))
        \o one(bottom_clearance(trace)) \o one(top_clearance(trace, height))

\* variant: a layout without a usable outline is itself reported
check_edge_clearances_outline_required(self, rep) ==
    LET outline == self.layout.outline
        traces == self.layout.traces
    IN  IF outline # <<>> /\ outline[1].width # <<>> /\ outline[1].height # <<>>
        THEN PushAll(rep,
               Loop([i \in 1..Len(traces) |->
                       EdgeViolations(self, traces[i],
                                      outline[1].width[1], outline[1].height[1])],
                    Len(traces)))
        ELSE Push(rep, [rule     |-> "clearance.edge",
                        message  |-> [text |-> "Board outline is unknown", names |-> <<>>],
                        location |-> [x2 |-> 0, y2 |-> 0],
                        severity |-> "Warning",
                        measured |-> Num(0),
                        limit    |-> Num(self.rules.min_edge_clearance),
                        unit     |-> "mm",
                        fix      |-> <<>>])

check_edge_clearances(self, rep) ==
    LET outline == self.layout.outline
        traces == self.layout.traces
    IN  IF outline # <<>> /\ outline[1].width # <<>> /\ outline[1].height # <<>>
        THEN PushAll(rep,
               Loop([i \in 1..Len(traces) |->
                       EdgeViolations(self, traces[i],
                                      outline[1].width[1], outline[1].height[1])],
                    Len(traces)))
        ELSE rep

(***************************************************************************)
(* Pass 5: component courtyard overlaps.                                   *)
(***************************************************************************)
CourtyardTooClose(self, c1, c2) ==
    LessThan(position_distance(c1.position, c2.position),
             Num(self.rules.min_courtyard_clearance))

\* variant: the severity is left at the default of DrcViolation::new
CourtyardViolation_error(self, c1, c2) ==
    [rule     |-> "clearance.courtyard",
     message  |-> [text  |-> "Components {} and {} may overlap (distance: {:.3}mm)",
                   names |-> <<c1.reference, c2.reference>>],
     location |-> position_to_point(c1.position),
     severity |-> "Error",
     measured |-> position_distance(c1.position, c2.position),
     limit    |-> Num(self.rules.min_courtyard_clearance),
     unit     |-> "mm",
     fix      |-> <<>>]

CourtyardViolation(self, c1, c2) ==
    [rule     |-> "clearance.courtyard",
     message  |-> [text  |-> "Components {} and {} may overlap (distance: {:.3}mm)",
                   names |-> <<c1.reference, c2.reference>>],
     location |-> position_to_point(c1.position),
     severity |-> "Warning",
     measured |-> position_distance(c1.position, c2.position),
     limit    |-> Num(self.rules.min_courtyard_clearance),
     unit     |-> "mm",
     fix      |-> <<>>]

ComponentPairSkipped(c1, c2) == c1.layer # c2.layer

ComponentPairViolations(self, c1, c2) ==
    IF ComponentPairSkipped(c1, c2) THEN <<>>
    ELSE IF CourtyardTooClose(self, c1, c2)
         THEN <<CourtyardViolation(self, c1, c2)>>
         ELSE <<>>

\* variant: the courtyard pass is skipped once the report holds an error
check_courtyard_overlaps_unless_errors(self, rep) ==
    LET components == self.layout.components
        n == Len(components)
    IN  IF \E k \in DOMAIN rep.violations : rep.violations[k].severity = "Error"
        THEN rep
        ELSE PushAll(rep,
               Loop([i \in 1..n |->
                       Loop([j \in 1..n |->
                               IF j > i
                               THEN ComponentPairViolations(self, components[i], components[j])
                               ELSE <<>>], n)], n))

check_courtyard_overlaps(self, rep) ==
    LET components == self.layout.components
        n == Len(components)
    IN  PushAll(rep,
          Loop([i \in 1..n |->
                  Loop([j \in 1..n |->
                          IF j > i
                          THEN ComponentPairViolations(self, components[i], components[j])
                          ELSE <<>>], n)], n))

(***************************************************************************)
(* PcbDrcChecker::available_rules: the registry of rule descriptors.       *)
(***************************************************************************)
DrcRule(id, name, category, default_severity, can_disable) ==
    [id |-> id, name |-> name, category |-> category,
     default_severity |-> default_severity, can_disable |-> can_disable]

\* variant: the descriptor of size.via_drill is missing
available_rules_short ==
    << DrcRule("clearance.track_to_track", "Track-to-Track Clearance", "Clearance", "Error", FALSE),
       DrcRule("clearance.track_to_pad", "Track-to-Pad Clearance", "Clearance", "Error", FALSE),
       DrcRule("clearance.via_to_via", "Via-to-Via Clearance", "Clearance", "Error", FALSE),
       DrcRule("clearance.edge", "Edge Clearance", "Clearance", "Error", FALSE),
       DrcRule("clearance.courtyard", "Courtyard Clearance", "Clearance", "Warning", TRUE),
       DrcRule("width.track", "Minimum Track Width", "Size", "Error", FALSE),
       DrcRule("size.via_diameter", "Minimum Via Diameter", "Size", "Error", FALSE),
       DrcRule("size.annular_ring", "Minimum Annular Ring", "Size", "Error", FALSE),
       DrcRule("silk.over_pads", "Silkscreen Over Pads", "Silkscreen", "Warning", TRUE) >>

available_rules ==
    << DrcRule("clearance.track_to_track", "Track-to-Track Clearance", "Clearance", "Error", FALSE),
       DrcRule("clearance.track_to_pad", "Track-to-Pad Clearance", "Clearance", "Error", FALSE),
       DrcRule("clearance.via_to_via", "Via-to-Via Clearance", "Clearance", "Error", FALSE),
       DrcRule("clearance.edge", "Edge Clearance", "Clearance", "Error", FALSE),
       DrcRule("clearance.courtyard", "Courtyard Clearance", "Clearance", "Warning", TRUE),
       DrcRule("width.track", "Minimum Track Width", "Size", "Error", FALSE),
       DrcRule("size.via_diameter", "Minimum Via Diameter", "Size", "Error", FALSE),
       DrcRule("size.via_drill", "Minimum Via Drill", "Size", "Error", FALSE),
       DrcRule("size.annular_ring", "Minimum Annular Ring", "Size", "Error", FALSE),
       DrcRule("silk.over_pads", "Silkscreen Over Pads", "Silkscreen", "Warning", TRUE) >>

\* variant: the edge pass runs before the via pass
check_all_edges_first(self) ==
    check_courtyard_overlaps(self,
      check_via_rules(self,
        check_edge_clearances(self,
          check_track_clearances(self,
            check_track_widths(self, NewReport("PCB Layout", "pcb"))))))

(***************************************************************************)
(* PcbDrcChecker::check_all: the five passes on a fresh report.            *)
(***************************************************************************)
\* variant: a rule the registry lets the user disable is dropped from the
\* report when check_silk_over_pads is off
check_all_honouring_registry(self) ==
    LET r5 == check_courtyard_overlaps(self,
                check_edge_clearances(self,
                  check_via_rules(self,
                    check_track_clearances(self,
                      check_track_widths(self, NewReport("PCB Layout", "pcb"))))))
        disabled(v) == /\ ~self.rules.check_silk_over_pads
                       /\ \E i \in DOMAIN available_rules :
                             /\ available_rules[i].id = v.rule
                             /\ available_rules[i].can_disable
    IN  [r5 EXCEPT !.violations = SelectSeq(@, LAMBDA v : ~disabled(v))]

check_all(self) ==
    LET r0 == NewReport("PCB Layout", "pcb")
        r1 == check_track_widths(self, r0)
        r2 == check_track_clearances(self, r1)
        r3 == check_via_rules(self, r2)
        r4 == check_edge_clearances(self, r3)
        r5 == check_courtyard_overlaps(self, r4)
    IN  r5

(***************************************************************************)
(* Inputs: the entities a layout is built from and the rule sets a checker *)
(* is constructed with.  Coordinates and sizes are micrometres.            *)
(***************************************************************************)
Trace(net, layer, start, end, width) ==
    [net |-> net, layer |-> layer, start |-> start, end |-> end,
     width |-> width, unit |-> "mm"]

Via(net, position, drill, pad) ==
    [net |-> net, position |-> position, drill |-> drill, pad |-> pad,
     unit |-> "mm"]

\* PlacedComponent::new(reference, value, footprint).at(x, y).rotated(deg),
\* with .on_bottom() for layer Bottom; rotation in whole degrees
PlacedComponent(reference, value, footprint, layer, position, rotation) ==
    [reference |-> reference, value |-> value, footprint |-> footprint,
     layer |-> layer, position |-> position, rotation |-> rotation]

Traces ==
    { Trace("NET1", "F.Cu", Pos(1000, 1000), Pos(5000, 1000), 200),
      Trace("NET2", "F.Cu", Pos(1000, 1300), Pos(5000, 1300), 200),
      Trace("NET1", "F.Cu", Pos(1000, 1300), Pos(5000, 1300), 100),
      Trace("NET2", "B.Cu", Pos(1000, 1300), Pos(5000, 1300), 200),
      Trace("NET2", "F.Cu", Pos(1300, 1400), Pos(5300, 1400), 200),
      Trace("NET2", "F.Cu", Pos(9900, 7900), Pos(50, 100), 150) }

Vias ==
    { Via("NET1", Pos(3000, 3000), 300, 600),
      Via("NET2", Pos(3600, 3800), 350, 400),
      Via("NET2", Pos(3500, 3000), 250, 500),
      Via("NET2", Pos(3000, 3700), 500, 600),
      Via("NET1", Pos(3100, 3000), 700, 600) }

Components ==
    { PlacedComponent("R1", "10K", "R_0603", "Top", Pos(2000, 2000), 0),
      PlacedComponent("R2", "10K", "R_0603", "Top", Pos(2150, 2200), 90),
      PlacedComponent("C1", "100nF", "C_0402", "Top", Pos(2000, 2100), 180),
      PlacedComponent("U2", "LM1117", "SOT-223", "Bottom", Pos(2000, 2000), 270) }

\* traces tagged LengthUnit inch: their numbers are thousandths of an inch
\* (0.010 in = 0.254 mm wide, 0.004 in = 0.1016 mm wide)
TracesInInches ==
    { [Trace("NET1", "F.Cu", Pos(50, 50), Pos(150, 50), 10) EXCEPT !.unit = "inch"],
      [Trace("NET2", "F.Cu", Pos(50, 100), Pos(150, 100), 4) EXCEPT !.unit = "inch"] }

\* Layout::new() has no outline, Layout::with_board_size(w, h, unit) a full
\* one; an imported outline may lack a dimension
Outlines ==
    { <<>>,
      <<[width |-> <<10000>>, height |-> <<8000>>]>>,
      <<[width |-> <<10000>>, height |-> <<>>]>>,
      <<[width |-> <<>>, height |-> <<8000>>]>> }

\* a custom rule set on the boundaries of the entities above, and the
\* all-zero rule set
CustomRules ==
    [PcbDesignRulesDefault EXCEPT
        !.min_track_clearance = 300, !.min_track_width = 200,
        !.min_via_clearance = 100, !.min_annular_ring = 25,
        !.min_edge_clearance = 1000, !.min_courtyard_clearance = 100,
        !.check_silk_over_pads = FALSE]

ZeroRules ==
    [f \in DOMAIN PcbDesignRulesDefault |->
        IF f = "check_silk_over_pads" THEN TRUE ELSE 0]

RuleSets == {PcbDesignRulesDefault, jlcpcb, osh_park, CustomRules, ZeroRules}

(***************************************************************************)
(* The library browser of hwt-core (library.rs).  A String is kept as the  *)
(* sequence of its characters, so that to_lowercase and contains are       *)
(* computed and not assumed; an Option is <<>> or <<x>>; a (usize, usize)  *)
(* pair is <<lib_idx, comp_idx>> with indices counted from 0 as in the     *)
(* program.                                                                *)
(***************************************************************************)
\* str::to_lowercase on the letters the inputs use
to_lowercase(s) ==
    LET lower == [R |-> "r", C |-> "c", S |-> "s", I |-> "i"]
    IN  [i \in DOMAIN s |-> IF s[i] \in DOMAIN lower THEN lower[s[i]] ELSE s[i]]

\* str::contains(pattern)
contains(s, pattern) ==
    \E i \in 0..(Len(s) - Len(pattern)) :
        \A j \in 1..Len(pattern) : s[i + j] = pattern[j]

\* LibraryComponent::new(name, component_type) and its with_* builders
LibraryComponent(name, component_type, description, keywords, datasheet, model_3d) ==
    [name |-> name, component_type |-> component_type,
     description |-> description, keywords |-> keywords,
     datasheet |-> datasheet, model_3d |-> model_3d]

\* Library::new(name), its metadata.domains and its components
Library(name, domains, components) ==
    [metadata |-> [name |-> name, domains |-> domains],
     components |-> components]

\* Vec::get(index): the element at a 0-based index, if any
Get(seq, index) == IF index + 1 \in DOMAIN seq THEN <<seq[index + 1]>> ELSE <<>>

\* self.libraries.get(lib_idx).and_then(|lib| lib.components.get(comp_idx))
ComponentAt(self, pair) ==
    LET lib == Get(self.libraries, pair[1])
    IN  IF lib = <<>> THEN <<>> ELSE Get(lib[1].components, pair[2])

\* format!("{:?}", component_type).to_lowercase()
category_of(component_type) ==
    CASE component_type = "Symbol" -> "symbol"
      [] component_type = "Footprint" -> "footprint"
      [] component_type = "Cell" -> "cell"
      [] component_type = "Gate" -> "gate"
      [] component_type = "Structure" -> "structure"
      [] component_type = "Die" -> "die"
      [] component_type = "Component" -> "component"

\* index.entry(key).or_default().push(pair)
IndexPush(index, key, pair) ==
    [k \in DOMAIN index \cup {key} |->
        IF k = key
        THEN Append(IF key \in DOMAIN index THEN index[key] ELSE <<>>, pair)
        ELSE index[k]]

\* LibraryBrowser::new(): every collection empty
LibraryBrowserNew ==
    [libraries |-> <<>>,
     category_index |-> [k \in {} |-> <<>>],
     keyword_index |-> [k \in {} |-> <<>>],
     recent |-> <<>>,
     favorites |-> <<>>]

\* the inner loop of add_library: one index entry per keyword of a component
RECURSIVE index_keywords(_, _, _, _)
index_keywords(index, keywords, pair, n) ==
    IF n > Len(keywords) THEN index
    ELSE index_keywords(IndexPush(index, to_lowercase(keywords[n]), pair),
                        keywords, pair, n + 1)

\* the outer loop of add_library over library.components.iter().enumerate()
RECURSIVE index_components(_, _, _, _)
index_components(self, library, lib_idx, n) ==
    IF n > Len(library.components) THEN self
    ELSE LET component == library.components[n]
             pair == <<lib_idx, n - 1>>
         IN  index_components(
                 [self EXCEPT
                    !.category_index =
                        IndexPush(@, category_of(component.component_type), pair),
                    !.keyword_index =
                        index_keywords(@, component.keywords, pair, 1)],
                 library, lib_idx, n + 1)

\* LibraryBrowser::add_library
add_library(self, library) ==
    [index_components(self, library, Len(self.libraries), 1) EXCEPT
        !.libraries = Append(@, library)]

\* the program keeps the 20 most recent items
RecentLimit == 20

\* Vec::truncate(len)
truncate(seq, len) == IF Len(seq) > len THEN SubSeq(seq, 1, len) ELSE seq

\* variant of add_recent: the pair is put in front without removing its
\* earlier occurrence
add_recent_keep(self, lib_idx, comp_idx) ==
    [self EXCEPT !.recent = truncate(<<<<lib_idx, comp_idx>>>> \o @, RecentLimit)]

\* LibraryBrowser::add_recent
add_recent(self, lib_idx, comp_idx) ==
    LET retained == SelectSeq(self.recent,
                        LAMBDA p : p[1] # lib_idx \/ p[2] # comp_idx)
    IN  [self EXCEPT
            !.recent = truncate(<<<<lib_idx, comp_idx>>>> \o retained, RecentLimit)]

\* filter_map over a list of pairs: the components the valid pairs name
RECURSIVE components_of(_, _)
components_of(self, pairs) ==
    IF pairs = <<>> THEN <<>>
    ELSE ComponentAt(self, Head(pairs)) \o components_of(self, Tail(pairs))

\* LibraryBrowser::recent
recent(self) == components_of(self, self.recent)

\* favorites.iter().position(..): the first 1-based index of the pair, or 0
position(seq, lib_idx, comp_idx) ==
    LET hits == {i \in DOMAIN seq : seq[i][1] = lib_idx /\ seq[i][2] = comp_idx}
    IN  IF hits = {} THEN 0 ELSE CHOOSE i \in hits : \A j \in hits : i <= j

\* Vec::remove(pos) at a 1-based index
remove(seq, pos) == SubSeq(seq, 1, pos - 1) \o SubSeq(seq, pos + 1, Len(seq))

\* variant of toggle_favorite: a favourite is never removed
toggle_favorite_push(self, lib_idx, comp_idx) ==
    [self |-> [self EXCEPT !.favorites = Append(@, <<lib_idx, comp_idx>>)],
     ret |-> TRUE]

\* LibraryBrowser::toggle_favorite: the browser after the call and the
\* value returned
toggle_favorite(self, lib_idx, comp_idx) ==
    LET pos == position(self.favorites, lib_idx, comp_idx)
    IN  IF pos # 0
        THEN [self |-> [self EXCEPT !.favorites = remove(@, pos)], ret |-> FALSE]
        ELSE [self |-> [self EXCEPT !.favorites = Append(@, <<lib_idx, comp_idx>>)],
              ret |-> TRUE]

\* LibraryBrowser::favorites
favorites(self) == components_of(self, self.favorites)

\* LibraryBrowser::is_favorite
is_favorite(self, lib_idx, comp_idx) ==
    \E i \in DOMAIN self.favorites :
        self.favorites[i][1] = lib_idx /\ self.favorites[i][2] = comp_idx

\* BrowserResult of the component at (lib_idx, comp_idx), both 0-based
BrowserResult(self, lib_idx, comp_idx, match_score) ==
    [library_index |-> lib_idx,
     library_name |-> self.libraries[lib_idx + 1].metadata.name,
     component_index |-> comp_idx,
     component |-> self.libraries[lib_idx + 1].components[comp_idx + 1],
     match_score |-> match_score]

\* the orders in which a HashMap may yield the given keys
IterationOrders(keys) ==
    {o \in [1..Cardinality(keys) -> keys] :
        \A i, j \in DOMAIN o : o[i] = o[j] => i = j}

\* the fast path of search for one keyword's index entries, from the n-th:
\* acc.seen is the HashSet, acc.results the results pushed so far
RECURSIVE search_indices(_, _, _, _)
search_indices(self, indices, acc, n) ==
    IF n > Len(indices) THEN acc
    ELSE LET pair == indices[n]
             fresh == pair \notin acc.seen
             found == ComponentAt(self, pair) # <<>>
         IN  search_indices(self, indices,
                 [seen |-> acc.seen \cup {pair},
                  results |->
                     IF fresh /\ found
                     THEN Append(acc.results,
                                 BrowserResult(self, pair[1], pair[2], 100))
                     ELSE acc.results],
                 n + 1)

\* the fast path of search over the matching keywords in iteration order
RECURSIVE search_keywords(_, _, _, _)
search_keywords(self, order, acc, n) ==
    IF n > Len(order) THEN acc
    ELSE search_keywords(self, order,
             search_indices(self, self.keyword_index[order[n]], acc, 1), n + 1)

\* the score search gives a component by its name and description
name_score(comp, query_lower) ==
    (IF contains(to_lowercase(comp.name), query_lower) THEN 80 ELSE 0)
    + (IF comp.description # <<>>
          /\ contains(to_lowercase(comp.description[1]), query_lower)
       THEN 40 ELSE 0)

\* the second loop of search over the components of library lib_idx
\* (1-based here), from the n-th
RECURSIVE search_names(_, _, _, _, _)
search_names(self, query_lower, seen, lib_idx, n) ==
    IF lib_idx > Len(self.libraries) THEN <<>>
    ELSE IF n > Len(self.libraries[lib_idx].components)
    THEN search_names(self, query_lower, seen, lib_idx + 1, 1)
    ELSE LET comp == self.libraries[lib_idx].components[n]
             score == name_score(comp, query_lower)
             here == IF <<lib_idx - 1, n - 1>> \notin seen /\ score > 0
                     THEN <<BrowserResult(self, lib_idx - 1, n - 1, score)>>
                     ELSE <<>>
         IN  here \o search_names(self, query_lower, seen, lib_idx, n + 1)

\* results.sort_by(|a, b| b.match_score.cmp(&a.match_score)): a stable sort,
\* highest score first
RECURSIVE sort_by_score(_)
sort_by_score(results) ==
    IF results = <<>> THEN <<>>
    ELSE LET best == CHOOSE s \in {results[i].match_score : i \in DOMAIN results} :
                        \A i \in DOMAIN results : results[i].match_score <= s
         IN  SelectSeq(results, LAMBDA r : r.match_score = best)
             \o sort_by_score(SelectSeq(results, LAMBDA r : r.match_score # best))

\* LibraryBrowser::search: the results it may return.  The keyword index is
\* a HashMap, so its iteration order is not fixed; keywords that do not
\* contain the query contribute nothing, so only the order of the matching
\* ones is enumerated.
search(self, query) ==
    LET query_lower == to_lowercase(query)
        matching == {k \in DOMAIN self.keyword_index : contains(k, query_lower)}
    IN  { LET fast == search_keywords(self, o, [seen |-> {}, results |-> <<>>], 1)
          IN  sort_by_score(fast.results
                  \o search_names(self, query_lower, fast.seen, 1, 1))
          : o \in IterationOrders(matching) }

\* the else branch of search_filtered: every component, score 50
RECURSIVE all_components(_, _, _)
all_components(self, lib_idx, n) ==
    IF lib_idx > Len(self.libraries) THEN <<>>
    ELSE IF n > Len(self.libraries[lib_idx].components)
    THEN all_components(self, lib_idx + 1, 1)
    ELSE <<BrowserResult(self, lib_idx - 1, n - 1, 50)>>
         \o all_components(self, lib_idx, n + 1)

\* LibrarySearchQuery
LibrarySearchQuery(text, domain, component_type, has_3d_model, has_datasheet, limit) ==
    [text |-> text, domain |-> domain, component_type |-> component_type,
     has_3d_model |-> has_3d_model, has_datasheet |-> has_datasheet,
     limit |-> limit]

\* the filters and the limit search_filtered applies to a result list
retain_and_truncate(results, filter) ==
    LET typed == IF filter.component_type # <<>>
                 THEN SelectSeq(results, LAMBDA r :
                         r.component.component_type = filter.component_type[1])
                 ELSE results
        sheeted == IF filter.has_datasheet # <<>>
                   THEN SelectSeq(typed, LAMBDA r :
                           (r.component.datasheet # <<>>) = filter.has_datasheet[1])
                   ELSE typed
    IN  IF filter.limit # <<>> THEN truncate(sheeted, filter.limit[1]) ELSE sheeted

\* LibraryBrowser::search_filtered: the results it may return
search_filtered(self, filter) ==
    LET found == IF filter.text # <<>> THEN search(self, filter.text[1])
                 ELSE {all_components(self, 1, 1)}
    IN  {retain_and_truncate(results, filter) : results \in found}

\* libraries a session may load: a PCB parts library and an IC cell library
PartsLibrary ==
    Library(<<"P", "a", "r", "t", "s">>, <<"Pcb">>,
        << LibraryComponent(<<"R", "e", "s">>, "Component", <<>>,
               << <<"r", "e", "s">>, <<"S", "m", "d">> >>,
               << <<"u", "r", "l">> >>, <<>>),
           LibraryComponent(<<"C", "a", "p">>, "Component",
               << <<"n", "o", " ", "r", "e", "s">> >>,
               << <<"c", "a", "p", "s">> >>,
               <<>>, << <<"c", "a", "p", ".", "s", "t", "e", "p">> >>) >>)

CellsLibrary ==
    Library(<<"C", "e", "l", "l", "s">>, <<"Ic">>,
        << LibraryComponent(<<"I", "n", "v">>, "Cell", <<>>, <<>>,
               << <<"u", "r", "l">> >>, <<>>) >>)

Libraries == {PartsLibrary, CellsLibrary}

\* the pairs a session marks as favourite, and the ones it opens one at a
\* time; nothing requires a pair to name a loaded component
FavoritePairs == {<<0, 0>>, <<0, 1>>, <<1, 0>>}

RecentPairs == FavoritePairs \cup {<<0, RecentLimit - 1>>, <<0, RecentLimit>>}

\* how many components of one library a session opens in a row
RunLengths == {RecentLimit - 1, RecentLimit, RecentLimit + 1}

\* the queries a session runs
Queries ==
    { LibrarySearchQuery(<<>>, <<>>, <<>>, <<>>, <<>>, <<>>),
      LibrarySearchQuery(<<>>, <<>>, <<>>, <<>>, <<TRUE>>, <<10>>),
      LibrarySearchQuery(<< <<"r", "e", "s">> >>, <<>>, <<>>, <<>>, <<>>, <<>>),
      LibrarySearchQuery(<< <<"S">> >>, <<>>, <<>>, <<>>, <<>>, <<1>>),
      LibrarySearchQuery(<<>>, <<"Pcb">>, <<>>, <<>>, <<>>, <<>>),
      LibrarySearchQuery(<<>>, <<>>, <<>>, <<TRUE>>, <<>>, <<>>),
      LibrarySearchQuery(<<>>, <<>>, <<"Cell">>, <<>>, <<FALSE>>, <<>>),
      LibrarySearchQuery(<<>>, <<>>, <<"Component">>, <<>>, <<>>, <<1>>),
      LibrarySearchQuery(<< <<"n">> >>, <<>>, <<>>, <<FALSE>>, <<FALSE>>, <<0>>) }

(***************************************************************************)
(* The state machine.  layout is the Layout under construction; checker is *)
(* <<>> until PcbDrcChecker::new, then <<[layout, rules]>>, the layout     *)
(* being borrowed immutably from then on; report is the DrcReport the last *)
(* check_all returned and prev the one the call before it returned.        *)
(***************************************************************************)
Entities(l) == Len(l.traces) + Len(l.vias) + Len(l.components)

Init ==
    /\ \E o \in Outlines :
          layout = [traces |-> <<>>, vias |-> <<>>, components |-> <<>>,
                    outline |-> o]
    /\ checker = <<>>
    /\ report = <<>>
    /\ prev = <<>>
    /\ browser = LibraryBrowserNew
    /\ calls = 0
    /\ ret = [op |-> "none"]
    /\ run = <<>>

\* layout.traces.push(t)
AddTrace ==
    /\ checker = <<>>
    /\ Entities(layout) < MaxEntities
    /\ \E t \in Traces : layout' = [layout EXCEPT !.traces = Append(@, t)]
    /\ UNCHANGED <<checker, report, prev, browser, calls, ret, run>>

\* layout.vias.push(v)
AddVia ==
    /\ checker = <<>>
    /\ Entities(layout) < MaxEntities
    /\ \E v \in Vias : layout' = [layout EXCEPT !.vias = Append(@, v)]
    /\ UNCHANGED <<checker, report, prev, browser, calls, ret, run>>

\* layout.components.push(c)
AddComponent ==
    /\ checker = <<>>
    /\ Entities(layout) < MaxEntities
    /\ \E c \in Components : layout' = [layout EXCEPT !.components = Append(@, c)]
    /\ UNCHANGED <<checker, report, prev, browser, calls, ret, run>>

\* PcbDrcChecker::new(&layout, rules)
NewChecker ==
    /\ checker = <<>>
    /\ \E r \in RuleSets : checker' = <<[layout |-> layout, rules |-> r]>>
    /\ UNCHANGED <<layout, report, prev, browser, calls, ret, run>>

\* variant: check_all appends to the report of the call before
CheckAll_accumulate ==
    /\ checker # <<>>
    /\ report' = <<PushAll(IF report = <<>> THEN NewReport("PCB Layout", "pcb")
                           ELSE report[1],
                           check_all(checker[1]).violations)>>
    /\ prev' = report
    /\ UNCHANGED <<layout, checker, browser, calls, ret, run>>

\* let report = checker.check_all()
CheckAll ==
    /\ checker # <<>>
    /\ report' = <<check_all(checker[1])>>
    /\ prev' = report
    /\ UNCHANGED <<layout, checker, browser, calls, ret, run>>

\* layout.traces.push(t) for a trace whose unit tag is not millimetres
AddTraceInInches ==
    /\ checker = <<>>
    /\ Entities(layout) < MaxEntities
    /\ \E t \in TracesInInches : layout' = [layout EXCEPT !.traces = Append(@, t)]
    /\ UNCHANGED <<checker, report, prev, browser, calls, ret, run>>

Next == AddTrace \/ AddVia \/ AddComponent \/ NewChecker \/ CheckAll

Spec == Init /\ [][Next]_vars

(***************************************************************************)
(* The browser session.  browser is the LibraryBrowser, calls the number   *)
(* of calls that changed it, ret what the last call was given and what it  *)
(* returned.                                                               *)
(***************************************************************************)
\* browser.add_library(library)
AddLibrary ==
    /\ calls < MaxCalls
    /\ \E library \in Libraries : browser' = add_library(browser, library)
    /\ calls' = calls + 1
    /\ ret' = [op |-> "add_library"]
    /\ UNCHANGED <<layout, checker, report, prev, run>>

\* browser.add_recent(lib_idx, comp_idx)
AddRecent ==
    /\ calls < MaxCalls
    /\ \E p \in RecentPairs :
          /\ browser' = add_recent(browser, p[1], p[2])
          /\ ret' = [op |-> "add_recent", lib_idx |-> p[1], comp_idx |-> p[2]]
    /\ calls' = calls + 1
    /\ UNCHANGED <<layout, checker, report, prev, run>>

\* for comp_idx in 0..n { browser.add_recent(0, comp_idx) }
RECURSIVE add_recent_run(_, _, _)
add_recent_run(self, comp_idx, n) ==
    IF comp_idx >= n THEN self
    ELSE add_recent_run(add_recent(self, 0, comp_idx), comp_idx + 1, n)

\* a session opens the first n components of library 0 in turn
AddRecentRun ==
    /\ calls < MaxCalls
    /\ \E n \in RunLengths :
          /\ browser' = add_recent_run(browser, 0, n)
          /\ ret' = [op |-> "add_recent_run", count |-> n]
    /\ calls' = calls + 1
    /\ UNCHANGED <<layout, checker, report, prev, run>>

\* let items = browser.recent()
Recent ==
    /\ ret' = [op |-> "recent", value |-> recent(browser)]
    /\ UNCHANGED <<layout, checker, report, prev, browser, calls, run>>

\* let added = browser.toggle_favorite(lib_idx, comp_idx)
ToggleFavorite ==
    /\ calls < MaxCalls
    /\ \E p \in FavoritePairs :
          LET call == toggle_favorite(browser, p[1], p[2])
          IN  /\ browser' = call.self
              /\ ret' = [op |-> "toggle_favorite", lib_idx |-> p[1],
                         comp_idx |-> p[2], value |-> call.ret]
    /\ calls' = calls + 1
    /\ UNCHANGED <<layout, checker, report, prev, run>>

\* let results = browser.search_filtered(&filter)
SearchFiltered ==
    /\ \E filter \in Queries : \E results \in search_filtered(browser, filter) :
          ret' = [op |-> "search_filtered", filter |-> filter,
                  results |-> results]
    /\ UNCHANGED <<layout, checker, report, prev, browser, calls, run>>

BrowserInit == Init /\ layout.outline = <<>>

BrowserNext ==
    AddLibrary \/ AddRecent \/ AddRecentRun \/ Recent \/ ToggleFavorite
    \/ SearchFiltered

BrowserSpec == BrowserInit /\ [][BrowserNext]_vars

(***************************************************************************)
(* Vocabulary of the properties.  They are stated on the report of the     *)
(* last check_all against the layout and rules of the checker, with the    *)
(* arithmetic written out on the integer inputs.                           *)
(***************************************************************************)
Checked == report # <<>>

Violations == report[1].violations

TheLayout == checker[1].layout

TheRules == checker[1].rules

\* the positions in the report of the violations of a rule
Raised(rule) == {k \in DOMAIN Violations : Violations[k].rule = rule}

\* twice the midpoint of a trace
Mid2(t) == [x2 |-> t.start.x + t.end.x, y2 |-> t.start.y + t.end.y]

\* twice a position
At2(p) == [x2 |-> 2 * p.x, y2 |-> 2 * p.y]

\* the ordered pairs i < j of positions of a sequence
Pairs(seq) == {p \in (DOMAIN seq) \X (DOMAIN seq) : p[1] < p[2]}

\* the square of twice the distance between the midpoints of two traces
MidDist2Sq(t1, t2) ==
    (Mid2(t1).x2 - Mid2(t2).x2) * (Mid2(t1).x2 - Mid2(t2).x2)
    + (Mid2(t1).y2 - Mid2(t2).y2) * (Mid2(t1).y2 - Mid2(t2).y2)

\* the square of the distance between two positions
DistSq(p, q) == (p.x - q.x) * (p.x - q.x) + (p.y - q.y) * (p.y - q.y)

\* max(0, distance(midpoints) - (w1 + w2)/2) < lim
TrackGapBelow(t1, t2, lim) ==
    LET w == t1.width + t2.width
    IN  IF MidDist2Sq(t1, t2) > w * w
        THEN MidDist2Sq(t1, t2) < (2 * lim + w) * (2 * lim + w)
        ELSE 0 < lim

(***************************************************************************)
(* C1.  Track width: the report holds exactly one width.track violation    *)
(* (Error, at the trace's midpoint, measured = the trace's width, limit =  *)
(* min_track_width, with a fix) for each trace narrower than               *)
(* min_track_width, and none for any other trace.                          *)
(***************************************************************************)
C1_IsWidthViolationOf(v, t) ==
    /\ v.rule = "width.track"
    /\ v.severity = "Error"
    /\ v.location = Mid2(t)
    /\ v.measured = Num(t.width)
    /\ v.limit = Num(TheRules.min_track_width)
    /\ v.unit = "mm"
    /\ v.fix # <<>>

C1_TrackWidth ==
    Checked =>
      LET T == TheLayout.traces
          narrow == {i \in DOMAIN T : T[i].width < TheRules.min_track_width}
          of(i) == {k \in DOMAIN Violations : C1_IsWidthViolationOf(Violations[k], T[i])}
          alike(i) == {j \in narrow : Mid2(T[j]) = Mid2(T[i]) /\ T[j].width = T[i].width}
      IN  /\ \A i \in DOMAIN T : Cardinality(of(i)) = Cardinality(alike(i))
          /\ \A i \in DOMAIN T \ narrow : of(i) = {}
          /\ Cardinality(Raised("width.track")) = Cardinality(narrow)

C1_Witness ==
    /\ Checked
    /\ \E i, j \in DOMAIN TheLayout.traces :
          /\ TheLayout.traces[i].width < TheRules.min_track_width
          /\ TheLayout.traces[j].width >= TheRules.min_track_width
    /\ Raised("width.track") # {}

(***************************************************************************)
(* C2.  Track-to-track clearance: each pair of traces t1 before t2 on the  *)
(* same layer and on different nets raises exactly one                     *)
(* clearance.track_to_track Error at t1's midpoint when max(0, distance of *)
(* the midpoints - (w1 + w2)/2) < min_track_clearance, and none otherwise. *)
(***************************************************************************)
C2_Close ==
    LET T == TheLayout.traces
    IN  {p \in Pairs(T) :
           /\ T[p[1]].layer = T[p[2]].layer
           /\ T[p[1]].net # T[p[2]].net
           /\ TrackGapBelow(T[p[1]], T[p[2]], TheRules.min_track_clearance)}

C2_TrackClearance ==
    Checked =>
      LET T == TheLayout.traces
          hits == Raised("clearance.track_to_track")
      IN  /\ Cardinality(hits) = Cardinality(C2_Close)
          /\ \A k \in hits :
                /\ Violations[k].severity = "Error"
                /\ Violations[k].limit = Num(TheRules.min_track_clearance)
          /\ \A i \in DOMAIN T :
                Cardinality({k \in hits : Violations[k].location = Mid2(T[i])})
                = Cardinality({p \in C2_Close : Mid2(T[p[1]]) = Mid2(T[i])})

C2_Witness ==
    /\ Checked
    /\ C2_Close # {}
    /\ \E p \in Pairs(TheLayout.traces) \ C2_Close :
          /\ TheLayout.traces[p[1]].layer = TheLayout.traces[p[2]].layer
          /\ TheLayout.traces[p[1]].net # TheLayout.traces[p[2]].net
    /\ Raised("clearance.track_to_track") # {}

(***************************************************************************)
(* C3.  Same-net exemption: the clearance.track_to_track violations at a   *)
(* location are at most as many as the pairs of traces on different nets   *)
(* whose first trace has its midpoint there, and likewise the              *)
(* clearance.via_to_via violations and the pairs of vias on different      *)
(* nets; traces that all share a net raise no clearance.track_to_track,    *)
(* vias that all share a net no clearance.via_to_via.                      *)
(***************************************************************************)
C3_SameNetExempt ==
    Checked =>
      LET T == TheLayout.traces
          V == TheLayout.vias
          thits == Raised("clearance.track_to_track")
          vhits == Raised("clearance.via_to_via")
      IN  /\ \A k \in thits :
                Cardinality({h \in thits : Violations[h].location = Violations[k].location})
                <= Cardinality({p \in Pairs(T) :
                                  /\ T[p[1]].net # T[p[2]].net
                                  /\ Mid2(T[p[1]]) = Violations[k].location})
          /\ \A k \in vhits :
                Cardinality({h \in vhits : Violations[h].location = Violations[k].location})
                <= Cardinality({p \in Pairs(V) :
                                  /\ V[p[1]].net # V[p[2]].net
                                  /\ At2(V[p[1]].position) = Violations[k].location})
          /\ (\A i, j \in DOMAIN T : T[i].net = T[j].net) => thits = {}
          /\ (\A i, j \in DOMAIN V : V[i].net = V[j].net) => vhits = {}

C3_Witness ==
    /\ Checked
    /\ \E p \in Pairs(TheLayout.traces) :
          /\ TheLayout.traces[p[1]].net = TheLayout.traces[p[2]].net
          /\ TheLayout.traces[p[1]].layer = TheLayout.traces[p[2]].layer
          /\ TrackGapBelow(TheLayout.traces[p[1]], TheLayout.traces[p[2]],
                           TheRules.min_track_clearance)
    /\ Raised("clearance.track_to_track") # {}

(***************************************************************************)
(* C4.  Different-layer exemption: the clearance.track_to_track violations *)
(* at a location are at most as many as the pairs of traces on the same    *)
(* layer whose first trace has its midpoint there, and the                 *)
(* clearance.courtyard violations naming two references at a location at   *)
(* most as many as the pairs of components on the same layer with these    *)
(* references, the first one placed there.                                 *)
(***************************************************************************)
C4_DifferentLayerExempt ==
    Checked =>
      LET T == TheLayout.traces
          C == TheLayout.components
          thits == Raised("clearance.track_to_track")
          chits == Raised("clearance.courtyard")
      IN  /\ \A k \in thits :
                Cardinality({h \in thits : Violations[h].location = Violations[k].location})
                <= Cardinality({p \in Pairs(T) :
                                  /\ T[p[1]].layer = T[p[2]].layer
                                  /\ Mid2(T[p[1]]) = Violations[k].location})
          /\ \A k \in chits :
                Cardinality({h \in chits :
                               /\ Violations[h].location = Violations[k].location
                               /\ Violations[h].message.names = Violations[k].message.names})
                <= Cardinality({p \in Pairs(C) :
                                  /\ C[p[1]].layer = C[p[2]].layer
                                  /\ At2(C[p[1]].position) = Violations[k].location
                                  /\ <<C[p[1]].reference, C[p[2]].reference>>
                                     = Violations[k].message.names})

\* two close traces on different nets and different layers, next to a pair
\* on the same layer that is reported
C4_Witness ==
    /\ Checked
    /\ \E p \in Pairs(TheLayout.traces) :
          /\ TheLayout.traces[p[1]].layer # TheLayout.traces[p[2]].layer
          /\ TheLayout.traces[p[1]].net # TheLayout.traces[p[2]].net
          /\ TrackGapBelow(TheLayout.traces[p[1]], TheLayout.traces[p[2]],
                           TheRules.min_track_clearance)
    /\ Cardinality(Raised("clearance.track_to_track")) = 1

(***************************************************************************)
(* C5.  Annular ring: the report holds a size.annular_ring violation for a *)
(* via (Error, at the via's position, measured = (pad - drill)/2, with a   *)
(* fix) if and only if (pad - drill)/2 < min_annular_ring.                 *)
(***************************************************************************)
C5_IsRingViolationOf(v, via) ==
    /\ v.rule = "size.annular_ring"
    /\ v.severity = "Error"
    /\ v.location = At2(via.position)
    /\ v.measured = Half(via.pad - via.drill)
    /\ v.limit = Num(TheRules.min_annular_ring)
    /\ v.fix # <<>>

C5_AnnularRing ==
    Checked =>
      LET V == TheLayout.vias
          thin == {i \in DOMAIN V : V[i].pad - V[i].drill < 2 * TheRules.min_annular_ring}
          of(i) == {k \in DOMAIN Violations : C5_IsRingViolationOf(Violations[k], V[i])}
          alike(i) == {j \in thin : /\ V[j].position = V[i].position
                                    /\ V[j].pad - V[j].drill = V[i].pad - V[i].drill}
      IN  /\ \A i \in DOMAIN V : (i \in thin) <=> (of(i) # {})
          /\ \A i \in DOMAIN V : Cardinality(of(i)) = Cardinality(alike(i))
          /\ Cardinality(Raised("size.annular_ring")) = Cardinality(thin)

C5_Witness ==
    /\ Checked
    /\ \E i, j \in DOMAIN TheLayout.vias :
          /\ TheLayout.vias[i].pad - TheLayout.vias[i].drill < 2 * TheRules.min_annular_ring
          /\ TheLayout.vias[j].pad - TheLayout.vias[j].drill >= 2 * TheRules.min_annular_ring
    /\ Raised("size.annular_ring") # {}

(***************************************************************************)
(* C6.  Via sizes: size.via_diameter is raised for a via if and only if    *)
(* pad < min_via_diameter and size.via_drill if and only if drill <        *)
(* min_via_drill, whatever the other size checks of the via say; a via of  *)
(* drill 0.35 and pad 0.4 under the default rules raises size.via_diameter *)
(* and size.annular_ring and not size.via_drill.                           *)
(***************************************************************************)
C6_IsSizeViolationOf(v, rule, via, size, limit) ==
    /\ v.rule = rule
    /\ v.severity = "Error"
    /\ v.location = At2(via.position)
    /\ v.measured = Num(size)
    /\ v.limit = Num(limit)

C6_ViaSizes ==
    Checked =>
      LET V == TheLayout.vias
          slim == {i \in DOMAIN V : V[i].pad < TheRules.min_via_diameter}
          tight == {i \in DOMAIN V : V[i].drill < TheRules.min_via_drill}
          dia(i) == {k \in DOMAIN Violations :
                       C6_IsSizeViolationOf(Violations[k], "size.via_diameter", V[i],
                                            V[i].pad, TheRules.min_via_diameter)}
          dri(i) == {k \in DOMAIN Violations :
                       C6_IsSizeViolationOf(Violations[k], "size.via_drill", V[i],
                                            V[i].drill, TheRules.min_via_drill)}
      IN  /\ \A i \in DOMAIN V : (i \in slim) <=> (dia(i) # {})
          /\ \A i \in DOMAIN V : (i \in tight) <=> (dri(i) # {})
          /\ Cardinality(Raised("size.via_diameter")) = Cardinality(slim)
          /\ Cardinality(Raised("size.via_drill")) = Cardinality(tight)
          /\ \A i \in DOMAIN V :
                (V[i].drill = 350 /\ V[i].pad = 400 /\ TheRules = PcbDesignRulesDefault)
                => /\ dia(i) # {}
                   /\ \E k \in Raised("size.annular_ring") :
                         Violations[k].location = At2(V[i].position)
                   /\ dri(i) = {}

\* the via of the scenario, next to a via that raises all three size rules
C6_Witness ==
    /\ Checked
    /\ TheRules = PcbDesignRulesDefault
    /\ \E i \in DOMAIN TheLayout.vias :
          TheLayout.vias[i].drill = 350 /\ TheLayout.vias[i].pad = 400
    /\ \E i \in DOMAIN TheLayout.vias :
          \A r \in {"size.via_diameter", "size.via_drill", "size.annular_ring"} :
             \E k \in Raised(r) :
                Violations[k].location = At2(TheLayout.vias[i].position)

(***************************************************************************)
(* C7.  Via-to-via clearance, as amended: each pair of vias on different   *)
(* nets raises a clearance.via_to_via Error (at the first via's position)  *)
(* if and only if the distance of the centres minus the sum of the two pad *)
(* radii, (pad1 + pad2)/2, is less than min_via_clearance.                 *)
(***************************************************************************)
\* distance - sub/2 < lim  for a squared distance dsq
C7_GapBelow(dsq, sub, lim) ==
    2 * lim + sub > 0 /\ 4 * dsq < (2 * lim + sub) * (2 * lim + sub)

C7_Close(sub(_, _)) ==
    LET V == TheLayout.vias
    IN  {p \in Pairs(V) :
           /\ V[p[1]].net # V[p[2]].net
           /\ C7_GapBelow(DistSq(V[p[1]].position, V[p[2]].position),
                          sub(V[p[1]], V[p[2]]), TheRules.min_via_clearance)}

C7_Holds(sub(_, _)) ==
    Checked =>
      LET V == TheLayout.vias
          hits == Raised("clearance.via_to_via")
      IN  /\ Cardinality(hits) = Cardinality(C7_Close(sub))
          /\ \A k \in hits : Violations[k].severity = "Error"
          /\ \A i \in DOMAIN V :
                Cardinality({k \in hits : Violations[k].location = At2(V[i].position)})
                = Cardinality({p \in C7_Close(sub) :
                                 V[p[1]].position = V[i].position})

\* twice the sum of the two pad radii
C7_SumOfRadii(v1, v2) == v1.pad + v2.pad

\* twice the average of the two pad radii
C7_AverageOfRadii(v1, v2) == (v1.pad + v2.pad) \div 2

C7_ViaClearance == C7_Holds(C7_SumOfRadii)

\* C7 as claimed: ... minus the average of the two pad radii
C7_AsClaimed == C7_Holds(C7_AverageOfRadii)

C7_Witness ==
    /\ Checked
    /\ C7_Close(C7_SumOfRadii) # C7_Close(C7_AverageOfRadii)
    /\ Raised("clearance.via_to_via") # {}

(***************************************************************************)
(* C8.  Edge clearance: with an outline of known width and height, each    *)
(* trace raises one clearance.edge Error at its midpoint for each of the   *)
(* four edges whose clearance (left = min(start.x, end.x) - width/2,       *)
(* right = boardWidth - max(start.x, end.x) - width/2, bottom and top      *)
(* likewise on y) is below min_edge_clearance, so between 0 and 4; with no *)
(* outline or an unknown dimension there is no clearance.edge violation.   *)
(***************************************************************************)
C8_Edges == {"left", "right", "bottom", "top"}

\* twice the clearance of a trace to an edge of a board w by h
C8_Clearance2(t, e, w, h) ==
    CASE e = "left"   -> 2 * Min(t.start.x, t.end.x) - t.width
      [] e = "right"  -> 2 * (w - Max(t.start.x, t.end.x)) - t.width
      [] e = "bottom" -> 2 * Min(t.start.y, t.end.y) - t.width
      [] e = "top"    -> 2 * (h - Max(t.start.y, t.end.y)) - t.width

C8_OutlineKnown ==
    /\ TheLayout.outline # <<>>
    /\ TheLayout.outline[1].width # <<>>
    /\ TheLayout.outline[1].height # <<>>

\* the (trace, edge) pairs below the minimum
C8_Near ==
    LET T == TheLayout.traces
        w == TheLayout.outline[1].width[1]
        h == TheLayout.outline[1].height[1]
    IN  {q \in (DOMAIN T) \X C8_Edges :
           C8_Clearance2(T[q[1]], q[2], w, h) < 2 * TheRules.min_edge_clearance}

C8_EdgeClearance ==
    Checked =>
      LET T == TheLayout.traces
          hits == Raised("clearance.edge")
      IN  IF C8_OutlineKnown
          THEN LET w == TheLayout.outline[1].width[1]
                   h == TheLayout.outline[1].height[1]
               IN  /\ Cardinality(hits) = Cardinality(C8_Near)
                   /\ \A k \in hits :
                         /\ Violations[k].severity = "Error"
                         /\ Violations[k].limit = Num(TheRules.min_edge_clearance)
                   /\ \A q \in C8_Near :
                         \E k \in hits :
                            /\ Violations[k].location = Mid2(T[q[1]])
                            /\ Violations[k].measured
                               = Half(C8_Clearance2(T[q[1]], q[2], w, h))
                   /\ \A i \in DOMAIN T :
                         /\ Cardinality({k \in hits : Violations[k].location = Mid2(T[i])})
                            = Cardinality({q \in C8_Near : Mid2(T[q[1]]) = Mid2(T[i])})
                         /\ \A m \in {Violations[k].measured : k \in hits} :
                               Cardinality({k \in hits :
                                              /\ Violations[k].location = Mid2(T[i])
                                              /\ Violations[k].measured = m})
                               = Cardinality({q \in C8_Near :
                                                /\ Mid2(T[q[1]]) = Mid2(T[i])
                                                /\ Half(C8_Clearance2(T[q[1]], q[2], w, h)) = m})
          ELSE hits = {}

\* a trace near all four edges, and a trace near none
C8_Witness ==
    /\ Checked
    /\ C8_OutlineKnown
    /\ \E i, j \in DOMAIN TheLayout.traces :
          /\ \A e \in C8_Edges : <<i, e>> \in C8_Near
          /\ \A e \in C8_Edges : <<j, e>> \notin C8_Near
    /\ Cardinality(Raised("clearance.edge")) = 4

(***************************************************************************)
(* C9.  Courtyard: each pair of components on the same layer raises        *)
(* exactly one clearance.courtyard Warning, whose message names both       *)
(* reference designators, if and only if the distance of their positions   *)
(* is below min_courtyard_clearance.                                       *)
(***************************************************************************)
C9_Close ==
    LET C == TheLayout.components
    IN  {p \in Pairs(C) :
           /\ C[p[1]].layer = C[p[2]].layer
           /\ DistSq(C[p[1]].position, C[p[2]].position)
              < TheRules.min_courtyard_clearance * TheRules.min_courtyard_clearance}

C11_Swap(seq, i, j) ==
    [k \in DOMAIN seq |-> IF k = i THEN seq[j] ELSE IF k = j THEN seq[i] ELSE seq[k]]

\* the clearance.track_to_track violations reported with traces i and j exchanged
C11_Swapped(i, j) ==
    LET l == [TheLayout EXCEPT !.traces = C11_Swap(@, i, j)]
        vs == check_all([layout |-> l, rules |-> TheRules]).violations
    IN  [k \in {h \in DOMAIN vs : vs[h].rule = "clearance.track_to_track"} |-> vs[k]]

C11_SwapSymmetry ==
    Checked =>
      LET T == TheLayout.traces
          hits == Raised("clearance.track_to_track")
      IN  \A p \in Pairs(T) :
             (p[1] < p[2] /\ T[p[1]].layer = T[p[2]].layer
                /\ T[p[1]].net # T[p[2]].net)
             => LET sw == C11_Swapped(p[1], p[2])
                IN  /\ Cardinality(DOMAIN sw) = Cardinality(hits)
                    /\ Len(T) = 2 =>
                         /\ \A k \in hits : Violations[k].location = Mid2(T[1])
                         /\ \A k \in DOMAIN sw : sw[k].location = Mid2(T[2])

\* two reported traces of different widths and midpoints, alone in the layout
C11_Witness ==
    /\ Checked
    /\ Len(TheLayout.traces) = 2
    /\ TheLayout.traces[1].width # TheLayout.traces[2].width
    /\ Mid2(TheLayout.traces[1]) # Mid2(TheLayout.traces[2])
    /\ Raised("clearance.track_to_track") # {}


(***************************************************************************)
(* Layouts with traces in inches.                                          *)
(***************************************************************************)
NextUnits == Next \/ AddTraceInInches

SpecUnits == Init /\ [][NextUnits]_vars

(***************************************************************************)
(* C12.  Units: a trace is judged by its size in millimetres whatever its  *)
(* unit tag: the report holds a width.track violation measuring the        *)
(* trace's width in millimetres if and only if that width is below         *)
(* min_track_width.                                                        *)
(***************************************************************************)
\* thousandths of a unit to micrometres, ten times over (1 in = 25.4 mm)
C12_ToMicrometres10(n, unit) == IF unit = "inch" THEN 254 * n ELSE 10 * n

C12_UnitsRespected ==
    Checked =>
      \A i \in DOMAIN TheLayout.traces :
         LET t == TheLayout.traces[i]
             w10 == C12_ToMicrometres10(t.width, t.unit)
         IN  (w10 < 10 * TheRules.min_track_width)
             <=> \E k \in Raised("width.track") :
                    /\ Violations[k].measured.root = 0
                    /\ 5 * Violations[k].measured.lin = w10


(***************************************************************************)
(* C13.  Registry coverage: the rule of every violation of a report is the *)
(* id of a descriptor of available_rules(), a fixed list of at least 9     *)
(* descriptors.                                                            *)
(***************************************************************************)
C13_RegistryCoverage ==
    /\ Len(available_rules) >= 9
    /\ Checked =>
         \A k \in DOMAIN Violations :
            \E d \in DOMAIN available_rules : available_rules[d].id = Violations[k].rule

\* a report with violations of five rules, size.via_drill among them
C13_Witness ==
    /\ Checked
    /\ Cardinality({Violations[k].rule : k \in DOMAIN Violations}) >= 5
    /\ Raised("size.via_drill") # {}

(***************************************************************************)
(* C14.  Empty layout: a layout without traces, vias and components has a  *)
(* report without violations, under every rule set and with or without an  *)
(* outline.                                                                *)
(***************************************************************************)
C14_EmptyLayout ==
    (/\ Checked
     /\ TheLayout.traces = <<>>
     /\ TheLayout.vias = <<>>
     /\ TheLayout.components = <<>>)
    => report[1].violations = <<>>

C14_Witness ==
    /\ Checked
    /\ Entities(TheLayout) = 0
    /\ TheLayout.outline = <<>>
    /\ TheRules = jlcpcb

(***************************************************************************)
(* C15.  Preset values: jlcpcb() has min_track_width 0.127 and             *)
(* min_via_drill 0.2, osh_park() min_track_width 0.152, default()          *)
(* min_track_width 0.15, and no threshold of the three is negative.        *)
(***************************************************************************)
C15_Thresholds == DOMAIN PcbDesignRulesDefault \ {"check_silk_over_pads"}

\* the rule set a checker was built with, when it is one of the three
C15_Built(r) == checker # <<>> /\ TheRules = r

C15_Presets ==
    /\ C15_Built(jlcpcb) =>
          TheRules.min_track_width = 127 /\ TheRules.min_via_drill = 200
    /\ C15_Built(osh_park) => TheRules.min_track_width = 152
    /\ C15_Built(PcbDesignRulesDefault) => TheRules.min_track_width = 150
    /\ \A r \in {PcbDesignRulesDefault, jlcpcb, osh_park} :
          C15_Built(r) => \A f \in C15_Thresholds : TheRules[f] >= 0

C15_Witness ==
    /\ Checked
    /\ TheRules = jlcpcb
    /\ \E i \in DOMAIN TheLayout.traces : TheLayout.traces[i].width = 150
    /\ Raised("width.track") = {}


(***************************************************************************)
(* C20.  Report ordering: the report is named "PCB Layout" of kind "pcb"   *)
(* and lists all width.track violations in trace order, then all           *)
(* clearance.track_to_track in pair order (i < j, lexicographic), then for *)
(* each via in layout order its size.via_diameter, size.via_drill and      *)
(* size.annular_ring, then all clearance.via_to_via in pair order, then    *)
(* for each trace its clearance.edge violations in the order left, right,  *)
(* bottom, top, then all clearance.courtyard in pair order.                *)
(***************************************************************************)
\* what a violation is recognised by
C20_Entry(rule, location, names) == [rule |-> rule, location |-> location, names |-> names]

C20_If(cond, entry) == IF cond THEN <<entry>> ELSE <<>>

\* f[1] \o ... \o f[n]
RECURSIVE C20_Concat(_, _)
C20_Concat(f, n) == IF n = 0 THEN <<>> ELSE C20_Concat(f, n - 1) \o f[n]

\* g(i, j) for the pairs i < j of 1..n in lexicographic order
C20_OverPairs(g(_, _), n) ==
    C20_Concat([i \in 1..n |->
                  C20_Concat([j \in 1..n |-> IF j > i THEN g(i, j) ELSE <<>>], n)], n)

C20_Expected ==
    LET T == TheLayout.traces
        V == TheLayout.vias
        C == TheLayout.components
        R == TheRules
        closeTracks == C2_Close
        closeVias == C7_Close(C7_SumOfRadii)
        nearEdges == C8_Near
        closeComponents == C9_Close
        widths ==
          C20_Concat([i \in DOMAIN T |->
             C20_If(T[i].width < R.min_track_width,
                    C20_Entry("width.track", Mid2(T[i]), <<>>))], Len(T))
        tracks ==
          LET g(i, j) ==
                C20_If(<<i, j>> \in closeTracks,
                       C20_Entry("clearance.track_to_track", Mid2(T[i]), <<>>))
          IN  C20_OverPairs(g, Len(T))
        sizes ==
          C20_Concat([i \in DOMAIN V |->
             C20_If(V[i].pad < R.min_via_diameter,
                    C20_Entry("size.via_diameter", At2(V[i].position), <<>>))
             \o C20_If(V[i].drill < R.min_via_drill,
                       C20_Entry("size.via_drill", At2(V[i].position), <<>>))
             \o C20_If(V[i].pad - V[i].drill < 2 * R.min_annular_ring,
                       C20_Entry("size.annular_ring", At2(V[i].position), <<>>))],
             Len(V))
        vias ==
          LET g(i, j) ==
                C20_If(<<i, j>> \in closeVias,
                       C20_Entry("clearance.via_to_via", At2(V[i].position), <<>>))
          IN  C20_OverPairs(g, Len(V))
        edges ==
          IF C8_OutlineKnown
          THEN C20_Concat([i \in DOMAIN T |->
                  C20_Concat([e \in 1..4 |->
                     C20_If(<<i, <<"left", "right", "bottom", "top">>[e]>> \in nearEdges,
                            C20_Entry("clearance.edge", Mid2(T[i]), <<>>))], 4)],
                  Len(T))
          ELSE <<>>
        courtyards ==
          LET g(i, j) ==
                C20_If(<<i, j>> \in closeComponents,
                       C20_Entry("clearance.courtyard", At2(C[i].position),
                                 <<C[i].reference, C[j].reference>>))
          IN  C20_OverPairs(g, Len(C))
    IN  widths \o tracks \o sizes \o vias \o edges \o courtyards

\* the measured values of the clearance.edge violations, in report order
C20_EdgeMeasures ==
    LET T == TheLayout.traces
        w == TheLayout.outline[1].width[1]
        h == TheLayout.outline[1].height[1]
        nearEdges == C8_Near
    IN  C20_Concat([i \in DOMAIN T |->
           C20_Concat([e \in 1..4 |->
              LET edge == <<"left", "right", "bottom", "top">>[e]
              IN  C20_If(<<i, edge>> \in nearEdges,
                         Half(C8_Clearance2(T[i], edge, w, h)))], 4)], Len(T))

RECURSIVE C20_Select(_, _)
C20_Select(seq, rule) ==
    IF seq = <<>> THEN <<>>
    ELSE (IF Head(seq).rule = rule THEN <<Head(seq).measured>> ELSE <<>>)
         \o C20_Select(Tail(seq), rule)

C20_ReportOrder ==
    Checked =>
      /\ report[1].name = "PCB Layout"
      /\ report[1].kind = "pcb"
      /\ [k \in DOMAIN Violations |->
            C20_Entry(Violations[k].rule, Violations[k].location,
                      Violations[k].message.names)]
         = C20_Expected
      /\ C8_OutlineKnown =>
            C20_Select(Violations, "clearance.edge") = C20_EdgeMeasures

\* violations of four rules or more, the via pass and the edge pass among them
C20_Witness ==
    /\ Checked
    /\ Cardinality({Violations[k].rule : k \in DOMAIN Violations}) >= 4
    /\ Raised("clearance.edge") # {}
    /\ Raised("size.annular_ring") # {}
    /\ Raised("size.via_diameter") # {}


(***************************************************************************)
(* Claims about the library browser.                                       *)
(***************************************************************************)
\* the pair the last add_recent call was given
C16_Added == <<ret.lib_idx, ret.comp_idx>>

\* the recent list holds no pair twice and at most 20 pairs
C16_Bounded ==
    /\ \A i, j \in DOMAIN browser.recent :
          browser.recent[i] = browser.recent[j] => i = j
    /\ Len(browser.recent) <= 20

\* the positions of the recent list that name a loaded component
C16_Valid == {i \in DOMAIN browser.recent :
                 ComponentAt(browser, browser.recent[i]) # <<>>}

\* what recent() returned is, position by position, the component of the
\* valid pairs of the recent list in the order of the list
C16_InOrder ==
    ret.op = "recent" =>
        /\ Len(ret.value) = Cardinality(C16_Valid)
        /\ \A i \in C16_Valid :
              ret.value[Cardinality({j \in C16_Valid : j <= i})]
                  = ComponentAt(browser, browser.recent[i])[1]

\* one add_recent call puts its pair first and leaves the other pairs in
\* the order they had, dropping from the end what no longer fits
C16_ToFront ==
    ret'.op = "add_recent" /\ calls' = calls + 1 =>
        LET others == SelectSeq(browser.recent, LAMBDA p : p # C16_Added')
            rest == Tail(browser'.recent)
        IN  /\ browser'.recent # <<>>
            /\ browser'.recent[1] = C16_Added'
            /\ Len(rest) = Min(Len(others), 19)
            /\ rest = SubSeq(others, 1, Len(rest))

\* C16: after any sequence of add_recent calls the recent list has no
\* duplicate pair, holds at most 20 pairs and is ordered most recently added
\* first; add_recent of a pair already in the list moves it to the front
\* without changing the relative order of the others, and recent() returns
\* the components in that order
C16_RecentList == [](C16_Bounded /\ C16_InOrder) /\ [][C16_ToFront]_vars

\* a full list whose oldest pair was added again and moved to the front
C16_Witness ==
    /\ ret.op = "add_recent" /\ C16_Added = <<0, 0>>
    /\ Len(browser.recent) = 20
    /\ browser.recent[1] = <<0, 0>>
    /\ browser.recent[2] = <<0, 19>>
    /\ browser.recent[20] = <<0, 1>>


\* the favourites list after toggle_favorite is called twice in a row on
\* the pair p
C17_TwoToggles(p) ==
    toggle_favorite(toggle_favorite(browser, p[1], p[2]).self, p[1], p[2])
        .self.favorites

\* no pair occurs twice in the favourites list
C17_NoDuplicate ==
    \A i, j \in DOMAIN browser.favorites :
        browser.favorites[i] = browser.favorites[j] => i = j

\* one toggle_favorite call returns whether the pair has become a favourite,
\* flips the status of its pair and of no other pair
C17_Toggle ==
    ret'.op = "toggle_favorite" /\ calls' = calls + 1 =>
        LET was == is_favorite(browser, ret'.lib_idx, ret'.comp_idx)
        IN  /\ ret'.value = ~was
            /\ is_favorite(browser', ret'.lib_idx, ret'.comp_idx) = ~was
            /\ \A q \in FavoritePairs \ {<<ret'.lib_idx, ret'.comp_idx>>} :
                  is_favorite(browser', q[1], q[2]) = is_favorite(browser, q[1], q[2])

\* two toggles in a row give back the very list they started from
C17_RestoredExactly ==
    \A p \in FavoritePairs : C17_TwoToggles(p) = browser.favorites

\* two toggles in a row give back the same favourites, a pair that was a
\* favourite now being the last of the list
C17_RestoredAtEnd ==
    \A p \in FavoritePairs :
        LET others == SelectSeq(browser.favorites, LAMBDA q : q # p)
        IN  C17_TwoToggles(p) =
                IF is_favorite(browser, p[1], p[2]) THEN Append(others, p)
                ELSE browser.favorites

\* C17 as amended: toggle_favorite returns true and makes the pair a
\* favourite when it was not, returns false and makes it no favourite when it
\* was; no pair occurs twice in the favourites list; a toggle leaves the
\* status of every other pair unchanged; two consecutive toggles of the same
\* pair restore the set of favourites, and the list itself except that a pair
\* which was a favourite ends up last
C17_Favourites ==
    [](C17_NoDuplicate /\ C17_RestoredAtEnd) /\ [][C17_Toggle]_vars

\* C17 as stated: the same, with two consecutive toggles restoring the
\* favourites list exactly
C17_AsClaimed ==
    [](C17_NoDuplicate /\ C17_RestoredExactly) /\ [][C17_Toggle]_vars

\* two favourites, the second just added; toggling the first twice swaps them
C17_Witness ==
    /\ ret.op = "toggle_favorite" /\ ret.value = TRUE
    /\ Len(browser.favorites) = 2
    /\ browser.favorites[2] = <<ret.lib_idx, ret.comp_idx>>
    /\ C17_TwoToggles(browser.favorites[1])
          = <<browser.favorites[2], browser.favorites[1]>>


\* the component at a 0-based pair of a loaded library satisfies the filters
\* of the query that are named in fields: the text occurs, whatever the
\* case, in its name, its description or one of its keywords; its library
\* supports the domain; it has the component type; it has a 3D model, a
\* datasheet, or lacks them, as asked
C18_Satisfies(pair, filter, fields) ==
    LET lib == browser.libraries[pair[1] + 1]
        comp == lib.components[pair[2] + 1]
        text == to_lowercase(filter.text[1])
    IN  /\ "text" \in fields /\ filter.text # <<>> =>
              \/ contains(to_lowercase(comp.name), text)
              \/ comp.description # <<>>
                  /\ contains(to_lowercase(comp.description[1]), text)
              \/ \E k \in DOMAIN comp.keywords :
                    contains(to_lowercase(comp.keywords[k]), text)
        /\ "domain" \in fields /\ filter.domain # <<>> =>
              \E d \in DOMAIN lib.metadata.domains :
                  lib.metadata.domains[d] = filter.domain[1]
        /\ "component_type" \in fields /\ filter.component_type # <<>> =>
              comp.component_type = filter.component_type[1]
        /\ "has_3d_model" \in fields /\ filter.has_3d_model # <<>> =>
              (comp.model_3d # <<>>) = filter.has_3d_model[1]
        /\ "has_datasheet" \in fields /\ filter.has_datasheet # <<>> =>
              (comp.datasheet # <<>>) = filter.has_datasheet[1]

\* the loaded components
C18_Loaded ==
    {pair \in (0..Len(browser.libraries)) \X (0..2) :
        ComponentAt(browser, pair) # <<>>}

\* what the last search_filtered returned lists loaded components once
\* each, all satisfying the filters named in fields, and as many of the
\* satisfying ones as the limit allows
C18_Filtered(fields) ==
    ret.op = "search_filtered" =>
        LET at(i) == <<ret.results[i].library_index, ret.results[i].component_index>>
            satisfying == {pair \in C18_Loaded :
                              C18_Satisfies(pair, ret.filter, fields)}
        IN  /\ \A i \in DOMAIN ret.results :
                  /\ at(i) \in satisfying
                  /\ ret.results[i].component = ComponentAt(browser, at(i))[1]
            /\ \A i, j \in DOMAIN ret.results : at(i) = at(j) => i = j
            /\ Len(ret.results) =
                  IF ret.filter.limit # <<>>
                  THEN Min(ret.filter.limit[1], Cardinality(satisfying))
                  ELSE Cardinality(satisfying)

\* C18: search_filtered returns only results that satisfy every filter set
\* in the query (text, domain, component_type, has_3d_model, has_datasheet)
\* and at most limit results when a limit is set, the limit being applied
\* after the filters
C18_EveryFilter ==
    C18_Filtered({"text", "domain", "component_type", "has_3d_model",
                  "has_datasheet"})


(***************************************************************************)
(* Report generation from a layout (bom.rs, pnp.rs).  A Result is          *)
(* [ok |-> TRUE, value |-> v] or [ok |-> FALSE, error |-> e].              *)
(***************************************************************************)
Ok(value) == [ok |-> TRUE, value |-> value]

Err(error) == [ok |-> FALSE, error |-> error]

\* natord::compare on the strings of the inputs: their natural order, a run
\* of digits comparing as a number ("10K" before "100nF")
NaturalOrder ==
    <<"", "10K", "10K|R", "100nF", "C1", "C_0402", "LM1117", "R1", "R2", "R3",
      "R4", "R_0603", "R|SMD", "SMD", "SOT-223", "U2">>

natord_rank(s) == CHOOSE i \in DOMAIN NaturalOrder : NaturalOrder[i] = s

\* slice::sort_by, keys[i] being the integer key of seq[i]: a stable sort,
\* smallest key first
sort_by(seq, keys) ==
    LET place(i) == 1 + Cardinality({j \in DOMAIN seq :
                        keys[j] < keys[i] \/ (keys[j] = keys[i] /\ j < i)})
    IN  [p \in DOMAIN seq |-> seq[CHOOSE i \in DOMAIN seq : place(i) = p]]

\* BomEntry::from_component
BomEntry_from_component(reference, value, footprint) ==
    [references |-> <<reference>>, quantity |-> 1, value |-> value,
     footprint |-> footprint, unit_price |-> <<>>]

\* BomEntry::merge
merge(self, other) ==
    [self EXCEPT
        !.references =
            LET all == @ \o other.references
            IN  sort_by(all, [i \in DOMAIN all |-> natord_rank(all[i])]),
        !.quantity = @ + other.quantity]

\* the String key group_entries gives an entry: a clone of the value or of
\* the footprint, or format!("{}|{}", value, footprint)
group_key(entry, group_by) ==
    CASE group_by = "Value" -> entry.value
      [] group_by = "Footprint" -> entry.footprint
      [] group_by = "ValueAndFootprint" -> entry.value \o "|" \o entry.footprint

\* the loop of group_entries from the n-th entry: groups is the HashMap
RECURSIVE group_loop(_, _, _, _)
group_loop(groups, entries, group_by, n) ==
    IF n > Len(entries) THEN groups
    ELSE LET key == group_key(entries[n], group_by)
         IN  group_loop(
                 [k \in DOMAIN groups \cup {key} |->
                     IF k # key THEN groups[k]
                     ELSE IF key \in DOMAIN groups
                          THEN merge(groups[key], entries[n])
                          ELSE entries[n]],
                 entries, group_by, n + 1)

\* BomReport::group_entries: the lists it may return, a HashMap yielding its
\* values in any order
group_entries(entries, group_by) ==
    IF group_by = "None" THEN {entries}
    ELSE LET groups == group_loop([k \in {} |-> <<>>], entries, group_by, 1)
         IN  {[i \in DOMAIN o |-> groups[o[i]]] :
                 o \in IterationOrders(DOMAIN groups)}

\* BomReport::sort_entries
sort_entries(entries, sort_by_column) ==
    CASE sort_by_column = "Reference" ->
            sort_by(entries, [i \in DOMAIN entries |->
                natord_rank(IF entries[i].references = <<>> THEN ""
                            ELSE entries[i].references[1])])
      [] sort_by_column = "Value" ->
            sort_by(entries, [i \in DOMAIN entries |-> natord_rank(entries[i].value)])
      [] sort_by_column = "Quantity" ->
            sort_by(entries, [i \in DOMAIN entries |-> 0 - entries[i].quantity])
      [] sort_by_column = "Footprint" ->
            sort_by(entries, [i \in DOMAIN entries |-> natord_rank(entries[i].footprint)])

\* iter().map(|e| e.quantity).sum()
RECURSIVE sum_quantity(_)
sum_quantity(entries) ==
    IF entries = <<>> THEN 0
    ELSE Head(entries).quantity + sum_quantity(Tail(entries))

\* BomReport::calculate_total_cost: no entry built from a layout has a price
calculate_total_cost(entries) ==
    IF \E i \in DOMAIN entries : entries[i].unit_price # <<>>
    THEN <<0>> ELSE <<>>

\* BomConfig: the fields from_layout reads
BomConfig(group_by, sort_by_column, project_name) ==
    [group_by |-> group_by, sort_by |-> sort_by_column,
     project_name |-> project_name]

\* BomReport::from_layout: the results it may return
BomReport_from_layout(l, config) ==
    IF l.components = <<>> THEN {Err("NoComponents")}
    ELSE LET initial == [i \in DOMAIN l.components |->
                           BomEntry_from_component(l.components[i].reference,
                               l.components[i].value, l.components[i].footprint)]
         IN  { LET entries == sort_entries(grouped, config.sort_by)
               IN  Ok([project_name |->
                          IF config.project_name = <<>> THEN "Untitled"
                          ELSE config.project_name[1],
                       entries |-> entries,
                       unique_parts |-> Len(entries),
                       total_components |-> sum_quantity(entries),
                       total_cost |-> calculate_total_cost(entries)])
               : grouped \in group_entries(initial, config.group_by) }

\* PnpUnits::from_mm of a length in micrometres: the exact quotient
\* num / den in the unit (1 in = 25.4 mm, 1 mil = 0.0254 mm)
from_mm(units, value) ==
    CASE units = "Millimeters" -> [num |-> value, den |-> 1000]
      [] units = "Inches" -> [num |-> value, den |-> 25400]
      [] units = "Mils" -> [num |-> value * 10, den |-> 254]

\* PnpConfig: the fields from_layout reads
PnpConfig(side, units, negate_y, negate_bottom_rotation) ==
    [side |-> side, units |-> units, negate_y |-> negate_y,
     negate_bottom_rotation |-> negate_bottom_rotation]

\* the side filter of PnpReport::from_layout
side_filter(config, c) ==
    CASE config.side = "Top" -> c.layer = "Top"
      [] config.side = "Bottom" -> c.layer = "Bottom"
      [] config.side = "Both" -> TRUE

\* the PnpEntry PnpReport::from_layout maps a component to
PnpEntry(config, c) ==
    LET y == from_mm(config.units, c.position.y)
        rotation == IF config.negate_bottom_rotation /\ c.layer = "Bottom"
                    THEN 0 - c.rotation ELSE c.rotation
    IN  [reference |-> c.reference, value |-> c.value,
         footprint |-> c.footprint,
         x |-> from_mm(config.units, c.position.x),
         y |-> IF config.negate_y THEN [y EXCEPT !.num = 0 - @] ELSE y,
         rotation |-> rotation % 360,
         side |-> c.layer]

\* components.iter().filter(..).map(..).collect()
RECURSIVE pnp_entries(_, _)
pnp_entries(components, config) ==
    IF components = <<>> THEN <<>>
    ELSE (IF side_filter(config, Head(components))
          THEN <<PnpEntry(config, Head(components))>> ELSE <<>>)
         \o pnp_entries(Tail(components), config)

\* iter().filter(|e| e.side == side).count()
side_count(entries, side) ==
    Cardinality({i \in DOMAIN entries : entries[i].side = side})

\* variant of PnpReport::from_layout: an empty selection is an error too
PnpReport_from_layout_selected(l, config, project_name) ==
    LET mapped == pnp_entries(l.components, config)
        entries == sort_by(mapped,
                       [i \in DOMAIN mapped |-> natord_rank(mapped[i].reference)])
    IN  IF entries = <<>> THEN Err("NoComponents")
        ELSE Ok([project_name |->
                    IF project_name = <<>> THEN "Untitled" ELSE project_name[1],
                 units |-> config.units,
                 entries |-> entries,
                 top_count |-> side_count(entries, "Top"),
                 bottom_count |-> side_count(entries, "Bottom")])

\* PnpReport::from_layout
PnpReport_from_layout(l, config, project_name) ==
    IF l.components = <<>> THEN Err("NoComponents")
    ELSE LET mapped == pnp_entries(l.components, config)
             entries == sort_by(mapped,
                            [i \in DOMAIN mapped |-> natord_rank(mapped[i].reference)])
         IN  Ok([project_name |->
                    IF project_name = <<>> THEN "Untitled" ELSE project_name[1],
                 units |-> config.units,
                 entries |-> entries,
                 top_count |-> side_count(entries, "Top"),
                 bottom_count |-> side_count(entries, "Bottom")])

\* the configurations reports are asked with
BomConfigs ==
    { BomConfig("ValueAndFootprint", "Reference", <<>>),
      BomConfig("Value", "Value", <<"Board">>),
      BomConfig("Value", "Quantity", <<>>),
      BomConfig("Footprint", "Quantity", <<>>),
      BomConfig("None", "Footprint", <<>>),
      BomConfig("None", "Reference", <<>>) }

PnpConfigs ==
    {PnpConfig(side, "Millimeters", FALSE, FALSE) : side \in {"Top", "Bottom", "Both"}}
    \cup {PnpConfig(side, "Mils", TRUE, TRUE) : side \in {"Top", "Bottom", "Both"}}

\* let bom = BomReport::from_layout(&layout, &config)
BomFromLayout ==
    /\ \E config \in BomConfigs :
          \E result \in BomReport_from_layout(layout, config) :
              ret' = [op |-> "BomReport::from_layout", layout |-> layout,
                      config |-> config, result |-> result]
    /\ UNCHANGED <<layout, checker, report, prev, browser, calls, run>>

\* let pnp = PnpReport::from_layout(&layout, &config, project_name)
PnpFromLayout ==
    /\ \E config \in PnpConfigs :
          \E project_name \in IF config.negate_y THEN {<<"Board">>} ELSE {<<>>} :
          ret' = [op |-> "PnpReport::from_layout", layout |-> layout,
                  config |-> config,
                  result |-> PnpReport_from_layout(layout, config, project_name)]
    /\ UNCHANGED <<layout, checker, report, prev, browser, calls, run>>

ReportsInit == Init /\ layout.outline = <<>>

ReportsNext == AddComponent \/ BomFromLayout \/ PnpFromLayout

ReportsSpec == ReportsInit /\ [][ReportsNext]_vars


(***************************************************************************)
(* Claims about report generation.                                         *)
(***************************************************************************)
\* the last call was from_layout of the given report type
C19_Called(type) == ret.op \in {type \o "::from_layout"}

\* the call failed with NoComponents exactly when the layout it was given
\* has no component, and succeeded otherwise
C19_FailsOnlyOnEmpty ==
    /\ (ret.result = Err("NoComponents")) <=> (ret.layout.components = <<>>)
    /\ ret.layout.components # <<>> => ret.result.ok

\* in a PnP report every entry is on the side asked for, and the two side
\* counts add up to the number of entries
C19_SidesCounted ==
    ret.result.ok =>
        LET pnp == ret.result.value
        IN  /\ \A i \in DOMAIN pnp.entries :
                  /\ ret.config.side = "Top" => pnp.entries[i].side = "Top"
                  /\ ret.config.side = "Bottom" => pnp.entries[i].side = "Bottom"
            /\ pnp.top_count + pnp.bottom_count = Len(pnp.entries)

\* C19: BomReport::from_layout and PnpReport::from_layout return
\* Err(NoComponents) if and only if layout.components is empty and Ok for
\* any non-empty component list, for PnP even when the side filter leaves
\* no entry; in the PnP report every entry satisfies the side filter and
\* top_count + bottom_count is the number of entries
C19_ReportErrors ==
    /\ C19_Called("BomReport") => C19_FailsOnlyOnEmpty
    /\ C19_Called("PnpReport") => C19_FailsOnlyOnEmpty /\ C19_SidesCounted

\* a PnP report of a populated layout whose side filter left no entry
C19_Witness ==
    /\ C19_Called("PnpReport")
    /\ ret.layout.components # <<>>
    /\ ret.result.ok
    /\ ret.result.value.entries = <<>>


(***************************************************************************)
(* The five passes as five tasks.  check_all hands each pass the same      *)
(* &mut DrcReport and a pass does nothing with it but violations.push, so  *)
(* the passes can be run as tasks that append to one shared list.  run is  *)
(* <<>> while no such execution is under way; otherwise it holds the       *)
(* shared report, done[p], the number of violations task p has appended,   *)
(* and by, the task that appended each violation of the shared report.     *)
(***************************************************************************)
Passes == 1..5

\* the longest report the tasks are run on
MaxAppends == 4

\* the p-th call of check_all, applied to the report rep
pass(p, self, rep) ==
    CASE p = 1 -> check_track_widths(self, rep)
      [] p = 2 -> check_track_clearances(self, rep)
      [] p = 3 -> check_via_rules(self, rep)
      [] p = 4 -> check_edge_clearances(self, rep)
      [] p = 5 -> check_courtyard_overlaps(self, rep)

\* the violations the p-th pass appends when it is handed rep
contributed(p, self, rep) ==
    LET after == pass(p, self, rep).violations
    IN  SubSeq(after, Len(rep.violations) + 1, Len(after))

\* let mut report = DrcReport::new("PCB Layout", "pcb"), then the five tasks
StartPasses ==
    /\ checker # <<>>
    /\ run = <<>>
    /\ Len(check_all(checker[1]).violations) <= MaxAppends
    /\ run' = <<[report |-> NewReport("PCB Layout", "pcb"),
                 done   |-> [p \in Passes |-> 0],
                 by     |-> <<>>]>>
    /\ UNCHANGED <<layout, checker, report, prev, browser, calls, ret>>

\* task p runs to its next report.violations.push
PassStep(p) ==
    /\ run # <<>>
    /\ LET r == run[1]
           c == contributed(p, checker[1], r.report)
       IN  /\ r.done[p] < Len(c)
           /\ run' = <<[report |-> Push(r.report, c[r.done[p] + 1]),
                        done   |-> [r.done EXCEPT ![p] = @ + 1],
                        by     |-> Append(r.by, p)]>>
    /\ UNCHANGED <<layout, checker, report, prev, browser, calls, ret>>

PassesFinished ==
    /\ run # <<>>
    /\ \A p \in Passes :
          run[1].done[p] >= Len(contributed(p, checker[1], run[1].report))

\* the tasks have all returned and check_all returns the shared report
JoinPasses ==
    /\ PassesFinished
    /\ report' = <<run[1].report>>
    /\ prev' = report
    /\ UNCHANGED <<layout, checker, browser, calls, ret, run>>

ConcNext ==
    \/ AddTrace \/ AddVia \/ AddComponent \/ NewChecker
    \/ StartPasses
    \/ \E p \in Passes : PassStep(p)
    \/ JoinPasses

\* the layouts of the concurrent runs have a complete board outline
ConcInit ==
    /\ Init
    /\ layout.outline # <<>>
    /\ layout.outline[1].width # <<>>
    /\ layout.outline[1].height # <<>>

ConcSpec == ConcInit /\ [][ConcNext]_vars


\* the report the sequential check_all returns on the same checker
Sequential == check_all(checker[1])

\* the violations task p has appended to the shared report, in order
AppendedBy(p) ==
    LET r == run[1]
        RECURSIVE pick(_)
        pick(i) == IF i = 0 THEN <<>>
                   ELSE IF r.by[i] = p
                        THEN Append(pick(i - 1), r.report.violations[i])
                        ELSE pick(i - 1)
    IN  pick(Len(r.by))

\* the violations of the sequential report that the p-th pass added
SequentialBy(p) ==
    LET before == IF p = 1 THEN NewReport("PCB Layout", "pcb")
                  ELSE LET RECURSIVE upto(_)
                           upto(q) == IF q = 0
                                      THEN NewReport("PCB Layout", "pcb")
                                      ELSE pass(q, checker[1], upto(q - 1))
                       IN  upto(p - 1)
    IN  contributed(p, checker[1], before)

IsPrefix(s, t) == Len(s) <= Len(t) /\ s = SubSeq(t, 1, Len(s))

Occurrences(seq, v) == Cardinality({i \in DOMAIN seq : seq[i] = v})

SameMultiset(s, t) ==
    /\ Len(s) = Len(t)
    /\ \A i \in DOMAIN s : Occurrences(s, s[i]) = Occurrences(t, s[i])

\* C21: however the five passes are ordered or interleaved as tasks that
\* append to one report, every task appends a prefix of exactly what its
\* pass appends in the sequential check_all, and once all tasks have
\* returned the shared report holds the same multiset of violations as the
\* sequential report, each pass's contribution in its sequential order.
C21_PassIndependence ==
    run # <<>> =>
        /\ \A p \in Passes :
              /\ Len(AppendedBy(p)) = run[1].done[p]
              /\ IsPrefix(AppendedBy(p), SequentialBy(p))
        /\ PassesFinished =>
              /\ SameMultiset(run[1].report.violations, Sequential.violations)
              /\ \A p \in Passes : AppendedBy(p) = SequentialBy(p)

\* the tasks have returned after a true interleaving: some task appended
\* between two appends of another, the shared list is not in sequential
\* order, and a later pass appended before an earlier one
C21_Witness ==
    /\ PassesFinished
    /\ run[1].report.violations # Sequential.violations
    /\ \E i, j, k \in DOMAIN run[1].by :
          /\ i < j /\ j < k
          /\ run[1].by[i] = run[1].by[k]
          /\ run[1].by[j] < run[1].by[i]
    /\ Cardinality({run[1].by[i] : i \in DOMAIN run[1].by}) >= 3


(***************************************************************************)
(* The same layout checked under a second rule set.  Of the fourteen       *)
(* fields of PcbDesignRules the passes read eight; the other six are       *)
(* Unread.  CheckAllUnder builds a second checker on the layout of the     *)
(* first, with rules that agree with the first checker's on the eight      *)
(* fields read, and keeps what its check_all returns in ret.               *)
(***************************************************************************)
Compared ==
    {"min_track_width", "min_track_clearance", "min_via_diameter",
     "min_via_drill", "min_annular_ring", "min_via_clearance",
     "min_edge_clearance", "min_courtyard_clearance"}

Unread == (DOMAIN PcbDesignRulesDefault) \ Compared

\* values given to the numeric fields the passes do not read
UnreadValues == {0, 5000}

\* rule sets that agree with r on the eight compared thresholds
AgreeingRules(r) ==
    {[r EXCEPT !.check_silk_over_pads = b] : b \in BOOLEAN}
    \cup {[f \in DOMAIN r |->
             IF f = "check_silk_over_pads" THEN b
             ELSE IF f \in Unread THEN n ELSE r[f]] :
          b \in BOOLEAN, n \in UnreadValues}

\* PcbDrcChecker::new(layout.clone(), rules2).check_all()
CheckAllUnder ==
    /\ checker # <<>>
    /\ \E r2 \in AgreeingRules(checker[1].rules) :
          ret' = [op     |-> "check_all_under",
                  rules  |-> r2,
                  report |-> check_all([layout |-> checker[1].layout,
                                        rules  |-> r2])]
    /\ UNCHANGED <<layout, checker, report, prev, browser, calls, run>>

RulesNext ==
    AddTrace \/ AddVia \/ AddComponent \/ NewChecker \/ CheckAllUnder

RulesSpec == ConcInit /\ [][RulesNext]_vars

\* C22: check_all runs its five passes whatever the rule set says: a second
\* rule set that agrees with the checker's on the eight compared thresholds
\* gives the identical report on the same layout, whatever its
\* check_silk_over_pads and its other unread fields are, and violations of
\* the rules the registry marks can_disable are reported all the same.
C22_Unconditional ==
    ret.op = "check_all_under" =>
        /\ \A f \in Compared : ret.rules[f] = checker[1].rules[f]
        /\ ret.report = check_all(checker[1])

\* the second rule set has check_silk_over_pads off and other unread fields
\* changed, and the common report holds a violation of a rule that the
\* registry marks can_disable next to one that it does not
C22_Witness ==
    /\ ret.op = "check_all_under"
    /\ ~ret.rules.check_silk_over_pads
    /\ checker[1].rules.check_silk_over_pads
    /\ ret.rules.min_silk_width # checker[1].rules.min_silk_width
    /\ \E i, j \in DOMAIN ret.report.violations :
          /\ ret.report.violations[i].rule = "clearance.courtyard"
          /\ ret.report.violations[j].rule # "clearance.courtyard"
    /\ \E i \in DOMAIN available_rules :
          /\ available_rules[i].id = "clearance.courtyard"
          /\ available_rules[i].can_disable


(***************************************************************************)
(* Layouts with non-finite coordinates.  Position.x and Position.y are     *)
(* f64 and nothing validates them, so a trace or a via can be placed at    *)
(* NaN.                                                                    *)
(***************************************************************************)
NanTraces ==
    { Trace("NET1", "F.Cu", Pos(NaN, 1000), Pos(5000, 1000), 200),
      Trace("NET1", "F.Cu", Pos(NaN, NaN), Pos(NaN, NaN), 200),
      Trace("NET2", "F.Cu", Pos(NaN, 4000), Pos(50, 4000), 150) }

NanVias ==
    { Via("NET1", Pos(NaN, 3000), 300, 600),
      Via("NET2", Pos(3000, NaN), 300, 600) }

\* layout.traces.push(t) for a trace with a NaN coordinate
AddNanTrace ==
    /\ checker = <<>>
    /\ Entities(layout) < MaxEntities
    /\ \E t \in NanTraces : layout' = [layout EXCEPT !.traces = Append(@, t)]
    /\ UNCHANGED <<checker, report, prev, browser, calls, ret, run>>

\* layout.vias.push(v) for a via with a NaN coordinate
AddNanVia ==
    /\ checker = <<>>
    /\ Entities(layout) < MaxEntities
    /\ \E v \in NanVias : layout' = [layout EXCEPT !.vias = Append(@, v)]
    /\ UNCHANGED <<checker, report, prev, browser, calls, ret, run>>

NanNext ==
    AddTrace \/ AddVia \/ AddNanTrace \/ AddNanVia \/ NewChecker \/ CheckAll

NanSpec == ConcInit /\ [][NanNext]_vars

trace_has_nan(t) == NaN \in {t.start.x, t.start.y, t.end.x, t.end.y}

via_has_nan(v) == NaN \in {v.position.x, v.position.y}

\* the layout without its traces and vias at NaN
WithoutNan(l) ==
    [l EXCEPT !.traces = SelectSeq(@, LAMBDA t : ~trace_has_nan(t)),
              !.vias   = SelectSeq(@, LAMBDA v : ~via_has_nan(v))]

ClearanceRules ==
    {"clearance.track_to_track", "clearance.via_to_via", "clearance.edge"}

ClearanceViolations(rep) ==
    SelectSeq(rep.violations, LAMBDA v : v.rule \in ClearanceRules)

\* C23: a trace or via with a NaN coordinate passes every clearance check
\* silently: the clearance.track_to_track, clearance.via_to_via and
\* clearance.edge violations of the report are those of the same layout
\* without its traces and vias at NaN.
C23_NanPasses ==
    Checked =>
        ClearanceViolations(report[1])
        = ClearanceViolations(check_all([layout |-> WithoutNan(TheLayout),
                                         rules  |-> TheRules]))


(***************************************************************************)
(* C24.  Non-negative distances: on layouts with finite coordinates and    *)
(* non-negative sizes, the measured value of every                         *)
(* clearance.track_to_track, clearance.via_to_via, clearance.edge and      *)
(* clearance.courtyard violation of the report is >= 0.                    *)
(***************************************************************************)
C24_Distances ==
    {"clearance.track_to_track", "clearance.via_to_via", "clearance.edge",
     "clearance.courtyard"}

C24_NonNegative ==
    Checked =>
        \A k \in DOMAIN Violations :
           Violations[k].rule \in C24_Distances
           => ~LessThan(Violations[k].measured, Num(0))


(***************************************************************************)
(* Layouts with vias whose drill is not smaller than their pad.  Via.drill *)
(* and Via.pad are f64 fields that nothing validates.                      *)
(***************************************************************************)
DegenerateVias ==
    { Via("NET1", Pos(4000, 4000), 600, 600),
      Via("NET2", Pos(6000, 4000), 800, 600) }

\* layout.vias.push(v) for a via without an annular ring
AddDegenerateVia ==
    /\ checker = <<>>
    /\ Entities(layout) < MaxEntities
    /\ \E v \in DegenerateVias : layout' = [layout EXCEPT !.vias = Append(@, v)]
    /\ UNCHANGED <<checker, report, prev, browser, calls, ret, run>>

RingNext == AddVia \/ AddDegenerateVia \/ NewChecker \/ CheckAll

RingSpec == Init /\ [][RingNext]_vars

\* the via at position i of the layout is reported with size.annular_ring
C25_Reported(i) ==
    \E k \in Raised("size.annular_ring") :
       /\ Violations[k].location = At2(TheLayout.vias[i].position)
       /\ Violations[k].measured
          = Half(TheLayout.vias[i].pad - TheLayout.vias[i].drill)

\* C25 as claimed: under every rule set with non-negative thresholds, a via
\* whose annular ring (pad - drill)/2 is zero or negative is reported with
\* size.annular_ring.
C25_AsClaimed ==
    Checked =>
        \A i \in DOMAIN TheLayout.vias :
           TheLayout.vias[i].drill >= TheLayout.vias[i].pad => C25_Reported(i)

\* C25, as amended: PcbDrcChecker::new accepts every rule set and layout,
\* and a via with drill >= pad is reported with size.annular_ring if and
\* only if its ring is negative or min_annular_ring is positive: a ring of
\* exactly zero under min_annular_ring = 0 is not reported.
C25_RingReported ==
    /\ checker = <<>> => ENABLED NewChecker
    /\ checker # <<>> => checker[1].layout = layout
    /\ Checked =>
          \A i \in DOMAIN TheLayout.vias :
             TheLayout.vias[i].drill >= TheLayout.vias[i].pad
             => (C25_Reported(i)
                 <=> (TheLayout.vias[i].drill > TheLayout.vias[i].pad
                      \/ TheRules.min_annular_ring > 0))

\* under min_annular_ring = 0 a via with drill = pad goes unreported next to
\* a reported via with drill > pad
C25_Witness ==
    /\ Checked
    /\ TheRules.min_annular_ring = 0
    /\ \E i, j \in DOMAIN TheLayout.vias :
          /\ TheLayout.vias[i].drill = TheLayout.vias[i].pad
          /\ ~C25_Reported(i)
          /\ TheLayout.vias[j].drill > TheLayout.vias[j].pad
          /\ C25_Reported(j)


(***************************************************************************)
(* C26.  The fabrication presets against the generic default.              *)
(***************************************************************************)
\* the minimum-width and minimum-clearance thresholds
C26_WidthsAndClearances ==
    {"min_track_width", "min_track_clearance", "min_track_to_pad_clearance",
     "min_track_to_via_clearance", "min_via_clearance", "min_hole_clearance",
     "min_edge_clearance", "min_courtyard_clearance", "min_silk_width"}

\* the thresholds of r that exceed the default's
C26_Looser(r) ==
    {f \in C26_WidthsAndClearances : r[f] > PcbDesignRulesDefault[f]}

C26_StrictlyTighter(r) ==
    /\ r.min_track_width < PcbDesignRulesDefault.min_track_width
    /\ r.min_track_clearance < PcbDesignRulesDefault.min_track_clearance

\* C26 as claimed: a checker built with jlcpcb() or osh_park() has every
\* minimum-width and minimum-clearance threshold less than or equal to the
\* default's, and min_track_width and min_track_clearance strictly smaller.
C26_AsClaimed ==
    (checker # <<>> /\ checker[1].rules \in {jlcpcb, osh_park}) =>
        /\ C26_Looser(checker[1].rules) = {}
        /\ C26_StrictlyTighter(checker[1].rules)

\* C26, as amended: jlcpcb() is within the default on all nine thresholds
\* and strictly tighter on min_track_width and min_track_clearance;
\* osh_park() is strictly tighter on min_track_clearance and within the
\* default on all but min_track_width, min_edge_clearance and
\* min_silk_width, which are larger than the default's.
C26_Presets ==
    /\ (checker # <<>> /\ checker[1].rules = jlcpcb) =>
          /\ C26_Looser(checker[1].rules) = {}
          /\ C26_StrictlyTighter(checker[1].rules)
    /\ (checker # <<>> /\ checker[1].rules = osh_park) =>
          /\ C26_Looser(checker[1].rules)
             = {"min_track_width", "min_edge_clearance", "min_silk_width"}
          /\ checker[1].rules.min_track_clearance
             < PcbDesignRulesDefault.min_track_clearance

\* a checker built with osh_park() has returned a report
C26_Witness ==
    /\ Checked
    /\ TheRules = osh_park
    /\ TheRules.min_track_width > PcbDesignRulesDefault.min_track_width
    /\ TheLayout.vias # <<>>


(***************************************************************************)
(* Bills of materials of layouts whose values and footprints contain the   *)
(* character '|'.  PlacedComponent.value and .footprint are Strings that   *)
(* nothing restricts.                                                      *)
(***************************************************************************)
PipeComponents ==
    { PlacedComponent("R3", "10K|R", "SMD", "Top", Pos(3000, 2000), 0),
      PlacedComponent("R4", "10K", "R|SMD", "Top", Pos(3000, 3000), 0) }

\* layout.components.push(c) for a component with '|' in a field
AddPipeComponent ==
    /\ checker = <<>>
    /\ Entities(layout) < MaxEntities
    /\ \E c \in PipeComponents :
          layout' = [layout EXCEPT !.components = Append(@, c)]
    /\ UNCHANGED <<checker, report, prev, browser, calls, ret, run>>

BomNext == AddComponent \/ AddPipeComponent \/ BomFromLayout

BomSpec == ReportsInit /\ [][BomNext]_vars

\* the components i and j go together under the configured grouping
C27_SameGroup(ci, cj, group_by) ==
    CASE group_by = "ValueAndFootprint" ->
            ci.value = cj.value /\ ci.footprint = cj.footprint
      [] group_by = "Value" -> ci.value = cj.value
      [] group_by = "Footprint" -> ci.footprint = cj.footprint
      [] group_by = "None" -> FALSE

RECURSIVE C27_AllReferences(_)
C27_AllReferences(entries) ==
    IF entries = <<>> THEN <<>>
    ELSE Head(entries).references \o C27_AllReferences(Tail(entries))

\* C27: BomReport::from_layout partitions the components by the configured
\* key: two components are in the same entry if and only if they agree on
\* value and footprint (ValueAndFootprint), on value (Value), on footprint
\* (Footprint), never (None); the references of the entries are those of
\* the components, each once; an entry's quantity is the number of its
\* references; total_components is the number of components and
\* unique_parts the number of entries.
C27_Partition ==
    (ret.op = "BomReport::from_layout" /\ ret.result.ok) =>
        LET C == ret.layout.components
            entries == ret.result.value.entries
            refs == [i \in DOMAIN C |-> C[i].reference]
            together(i, j) ==
                \E e \in DOMAIN entries :
                   \E a, b \in DOMAIN entries[e].references :
                      /\ a # b
                      /\ entries[e].references[a] = refs[i]
                      /\ entries[e].references[b] = refs[j]
        IN  /\ \A i, j \in DOMAIN C :
                  i # j => (together(i, j)
                            <=> C27_SameGroup(C[i], C[j], ret.config.group_by))
            /\ SameMultiset(C27_AllReferences(entries), refs)
            /\ \A e \in DOMAIN entries :
                  entries[e].quantity = Len(entries[e].references)
            /\ ret.result.value.total_components = Len(C)
            /\ ret.result.value.unique_parts = Len(entries)


(***************************************************************************)
(* C28.  Checker and registry agree: every violation of the report carries *)
(* the default_severity that available_rules declares for its rule id,     *)
(* Warning for clearance.courtyard and Error for the seven other rules the *)
(* passes emit; no violation is Info; every violation carries a measured   *)
(* and a limit in "mm" with measured < limit.                              *)
(***************************************************************************)
C28_Emitted ==
    {"width.track", "clearance.track_to_track", "size.via_diameter",
     "size.via_drill", "size.annular_ring", "clearance.via_to_via",
     "clearance.edge", "clearance.courtyard"}

C28_SeverityConsistent ==
    Checked =>
        \A k \in DOMAIN Violations :
           LET v == Violations[k]
               declared == {i \in DOMAIN available_rules :
                              available_rules[i].id = v.rule}
           IN  /\ v.rule \in C28_Emitted
               /\ Cardinality(declared) = 1
               /\ \A i \in declared :
                     v.severity = available_rules[i].default_severity
               /\ v.severity
                  = IF v.rule = "clearance.courtyard" THEN "Warning" ELSE "Error"
               /\ v.severity # "Info"
               /\ v.unit = "mm"
               /\ LessThan(v.measured, v.limit)

\* a report with a courtyard warning next to the errors of a trace or via
C28_Witness ==
    /\ Checked
    /\ \E i, j \in DOMAIN Violations :
          /\ Violations[i].rule = "clearance.courtyard"
          /\ Violations[i].severity = "Warning"
          /\ Violations[j].rule # "clearance.courtyard"
          /\ Violations[j].severity = "Error"
    /\ Len(Violations) >= 3


(***************************************************************************)
(* The same layout checked under a second rule set that is nowhere below   *)
(* the checker's.  CheckAllAbove keeps both reports in ret.                *)
(***************************************************************************)
\* r1 is at most r2 on each threshold the passes compare
PointwiseLeq(r1, r2) == \A f \in Compared : r1[f] <= r2[f]

\* let below = checker.check_all();
\* let above = PcbDrcChecker::new(layout.clone(), rules2).check_all()
CheckAllAbove ==
    /\ checker # <<>>
    /\ \E r2 \in {r \in RuleSets : PointwiseLeq(checker[1].rules, r)} :
          ret' = [op    |-> "check_all_above",
                  rules |-> r2,
                  below |-> check_all(checker[1]),
                  above |-> check_all([layout |-> checker[1].layout,
                                       rules  |-> r2])]
    /\ UNCHANGED <<layout, checker, report, prev, browser, calls, run>>

MonoNext ==
    AddTrace \/ AddVia \/ AddComponent \/ NewChecker \/ CheckAllAbove

MonoSpec == ConcInit /\ [][MonoNext]_vars

\* the violations of a report that are about what v is about: the same rule
\* at the same place, with the same names and the same measured value
C29_Like(rep, v) ==
    {k \in DOMAIN rep.violations :
        /\ rep.violations[k].rule = v.rule
        /\ rep.violations[k].location = v.location
        /\ rep.violations[k].message.names = v.message.names
        /\ rep.violations[k].measured = v.measured}

\* C29: when the checker's rule set is pointwise at most a second one on
\* the eight compared thresholds (all the more when it is on all
\* thresholds), every violation reported under the checker's is reported
\* under the second (same rule, same entity or pair, as many times), so a
\* layout that is clean under the second is clean under the first; in
\* particular a layout clean under default() is clean under jlcpcb().
C29_Monotone ==
    ret.op = "check_all_above" =>
        /\ PointwiseLeq(checker[1].rules, ret.rules)
        /\ \A k \in DOMAIN ret.below.violations :
              Cardinality(C29_Like(ret.below, ret.below.violations[k]))
              <= Cardinality(C29_Like(ret.above, ret.below.violations[k]))
        /\ ret.above.violations = <<>> => ret.below.violations = <<>>
        /\ (checker[1].rules = jlcpcb /\ ret.rules = PcbDesignRulesDefault
              /\ ret.above.violations = <<>>)
           => ret.below.violations = <<>>

\* jlcpcb() below default(): the default reports strictly more than jlcpcb,
\* which reports something
C29_Witness ==
    /\ ret.op = "check_all_above"
    /\ checker[1].rules = jlcpcb
    /\ ret.rules = PcbDesignRulesDefault
    /\ ret.below.violations # <<>>
    /\ Len(ret.below.violations) < Len(ret.above.violations)

\* a populated layout that is clean under default() and under jlcpcb()
C29_CleanWitness ==
    /\ ret.op = "check_all_above"
    /\ checker[1].rules = jlcpcb
    /\ ret.rules = PcbDesignRulesDefault
    /\ ret.above.violations = <<>>
    /\ Entities(checker[1].layout) >= 2


(***************************************************************************)
(* Vias built at a canonical rule set's own minimums.                      *)
(***************************************************************************)
Presets == {PcbDesignRulesDefault, jlcpcb, osh_park}

\* Via { drill: rules.min_via_drill, pad: rules.min_via_diameter, .. }
via_at_minimums(rules) ==
    Via("NET1", Pos(5000, 5000), rules.min_via_drill, rules.min_via_diameter)

\* layout.vias.push(v) for a via at the minimums of a canonical rule set
AddViaAtMinimums ==
    /\ checker = <<>>
    /\ Entities(layout) < MaxEntities
    /\ \E r \in Presets :
          layout' = [layout EXCEPT !.vias = Append(@, via_at_minimums(r))]
    /\ UNCHANGED <<checker, report, prev, browser, calls, ret, run>>

PresetNext == AddVia \/ AddViaAtMinimums \/ NewChecker \/ CheckAll

PresetSpec == Init /\ [][PresetNext]_vars

\* the size violations of the report that are about the via
C30_SizeViolationsOf(via) ==
    {k \in DOMAIN Violations :
        /\ Violations[k].location = At2(via.position)
        /\ \/ /\ Violations[k].rule = "size.via_diameter"
              /\ Violations[k].measured = Num(via.pad)
           \/ /\ Violations[k].rule = "size.via_drill"
              /\ Violations[k].measured = Num(via.drill)
           \/ /\ Violations[k].rule = "size.annular_ring"
              /\ Violations[k].measured = Half(via.pad - via.drill)}

\* C30: under each of default(), jlcpcb() and osh_park(), a via built at
\* the rule set's own minimums (pad = min_via_diameter, drill =
\* min_via_drill) raises no size violation:
\* (min_via_diameter - min_via_drill)/2 >= min_annular_ring.
C30_SelfConsistent ==
    (Checked /\ TheRules \in Presets) =>
        \A i \in DOMAIN TheLayout.vias :
           TheLayout.vias[i] = via_at_minimums(TheRules)
           => /\ C30_SizeViolationsOf(TheLayout.vias[i]) = {}
              /\ TheLayout.vias[i].pad - TheLayout.vias[i].drill
                 >= 2 * TheRules.min_annular_ring

====
